---------------------------- MODULE Spec2Model ----------------------------
(***************************************************************************)
(* A model of the software rendering pipeline of Proyecto_Planetas.        *)
(*                                                                         *)
(* Numbers.  The program computes with f32.  The model computes with      *)
(* exact integers in fixed point:                                          *)
(*   - a screen coordinate is an integer number of ticks, Pixel ticks to   *)
(*     the pixel, so a pixel centre x + 0.5 is x * Pixel + HalfPixel;      *)
(*   - a product of two coordinates (an edge function, an area) is in      *)
(*     ticks^2;                                                            *)
(*   - a barycentric weight e * (1 / area) is kept as the pair e, area.    *)
(* Rounding of f32 is not modelled; floor, ceil and the `as i32` cast are. *)
(***************************************************************************)
EXTENDS Integers, Sequences, FiniteSets, TLC

VARIABLES
    \* ---- rasterizer.rs: one call of rasterize_triangle(_lod) ----
    triangle,      \* the Triangle argument: <<v0, v1, v2>>, each [x, y] in ticks
    screen,        \* [w, h]: screen_width, screen_height (f32, in ticks)
    rcall,         \* which function was called, and its skip_factor
    fragments,     \* the Vec<Fragment> returned: a sequence, in push order
    \* ---- renderer.rs: one call of render_celestial_body_to_framebuffer ----
    renderer,      \* the Renderer: [screen_width, screen_height, sphere_model]
    body,          \* the CelestialBody argument: [position, radius]
    eye,           \* the camera eye the view matrix was made from
    bout,          \* what the call did: see render_celestial_body_to_framebuffer
    \* ---- obj_loader.rs, primitive_assembly.rs: the mesh operations ----
    objfile,       \* the OBJ file: [nv, has_vn, faces], its face indices 1-based
    objmodel,      \* the ObjModel that ObjModel::load returned: None or Some
    mop,           \* the last mesh operation: [fn, outcome, value]
    \* ---- main.rs, renderer.rs, solar_system.rs: one frame after another ----
    solar_system,  \* [star, planets], a planet carrying its moons
    camera_eye,    \* camera.get_position()
    show_orbits,   \* main's show_orbits
    sphere_loaded, \* renderer.sphere_model.is_some()
    pc,            \* where the main loop is: "input", "clear", "render", "swap",
                   \* "draw", or "aborted" / "hung" after a failed render
    frame_ops,     \* the framebuffer operations of the current frame, in order
    \* ---- primitive_assembly.rs: one call of a function ----
    acall,         \* [fn, its arguments, result]; fn = "none" before the call
    \* ---- fragment_shader.rs: one call of a shader ----
    scall,         \* [fn, its arguments, total_light, result]
    \* ---- matrix.rs, vertex_shader.rs, renderer.rs: one call of a function ----
    vcall,         \* [fn, its arguments, its locals, result]
    \* ---- camera.rs: the Camera and the operations called on it ----
    camera,        \* the Camera: a record of its fields
    cam_op         \* [name, warping, n]: the last operation, is_warping before
                   \* it, and the number of operations other than update so far

rasterVars == <<triangle, screen, rcall, fragments>>
bodyVars == <<renderer, body, eye, bout>>
meshVars == <<objfile, objmodel, mop>>
frameVars == <<solar_system, camera_eye, show_orbits, sphere_loaded, pc, frame_ops>>

assemblyVars == <<acall>>

shaderVars == <<scall>>

vertexVars == <<vcall>>

cameraVars == <<camera, cam_op>>

vars == <<rasterVars, bodyVars, meshVars, frameVars, assemblyVars, shaderVars,
          vertexVars, cameraVars>>

-----------------------------------------------------------------------------
(* Bounds of the model *)

\* Half a pixel, in ticks (the resolution of the fixed point).
HalfPixel == 16
\* Coordinates are drawn from Stride * (-1 .. MaxCoordIdx - 1), 0 and 1 tick.
MaxCoordIdx == 3
\* Screens are drawn with index 0 .. MaxScreenIdx.
MaxScreenIdx == 2
\* skip_factor is drawn from -1 .. MaxSkip and i32::MAX.
MaxSkip == 3
\* The points given to edge_function have coordinates of 0 .. MaxEdgeIdx
\* halves of a unit.
MaxEdgeIdx == 2

\* For the depth: x and y are 0, Stride ticks or MaxDepthPx pixels, z is drawn
\* from 0 .. MaxDepth.
MaxDepthPx == 4
MaxDepth == 2

\* primitive_assembly.rs: the screen is AssemblyWidth x AssemblyHeight, lists
\* of triangles to cull have up to MaxTriangles elements and lists to sort up
\* to MaxSortLen, a fan has up to MaxFanLen vertices, and a depth is drawn
\* from 0 .. MaxZ.
AssemblyWidth == 4
AssemblyHeight == 3
MaxTriangles == 2
MaxSortLen == 3
MaxFanLen == 5
MaxZ == 2

\* Body coordinates are drawn from -1 .. MaxBodyCoord and FarCoord.
MaxBodyCoord == 4
FarCoord == 21
\* Body radii are drawn from 1 .. MaxRadius.
MaxRadius == 10
\* The camera eye is drawn from (0, 0, EyeStep * (1 .. MaxEyeIdx)).
MaxEyeIdx == 2
EyeStep == 5
\* The sphere model has faces 0 .. MaxFaceIdx over MeshVertexCount vertices.
MaxFaceIdx == 8
MeshVertexCount == 4
\* An OBJ file has MaxFileVertices vertex lines and up to two faces, whose
\* indices are drawn from 0 .. MaxFileVertices + 1.
MaxFileVertices == 2
\* A face of the file has up to MaxFaceLen indices.
MaxFaceLen == 4
\* assemble_triangles gets up to MaxIndices indices.
MaxIndices == 4
\* The camera rests at the points of a grid: every coordinate k * FrameEyeStep
\* with |k| <= MaxFrameEyeIdx, in half world units.
MaxFrameEyeIdx == 2
FrameEyeStep == 200
\* The renderer's screen, in pixels.
RendererWidth == 12
RendererHeight == 8

\* i32::MAX, what `f32::INFINITY as i32` gives.
I32Max == 2147483647
\* The largest i32 whose square is an i32.
I32SqrtMax == 46340

\* i32::MIN
I32Min == (0 - I32Max) - 1

Pixel == 2 * HalfPixel
Stride == Pixel + HalfPixel \div 2

Coords == {0, 1} \cup {k * Stride - Stride : k \in 0..MaxCoordIdx}
Points == [x : Coords, y : Coords, z : {0}]
ScreenSizes == {[w |-> (k + 1) * Stride, h |-> k * Stride + Pixel] : k \in 0..MaxScreenIdx}
SkipFactors == ((0 - 1)..MaxSkip) \cup {I32Max}

-----------------------------------------------------------------------------
(* The variables of a part of the program that a specification leaves alone *)

\* Option<T>: None is the empty sequence, Some(v) the sequence of v.
None == << >>
Some(v) == <<v>>

NoBout == [outcome |-> "none"]

BodyUnused ==
    /\ renderer = [screen_width |-> RendererWidth, screen_height |-> RendererHeight,
                   sphere_model |-> None]
    /\ body = [position |-> [x |-> 0, y |-> 0, z |-> 0], radius |-> 1]
    /\ eye = [x |-> 0, y |-> 0, z |-> EyeStep]
    /\ bout = NoBout

AssemblyUnused == acall = [fn |-> "unused"]

ShaderUnused == scall = [fn |-> "unused"]

VertexUnused == vcall = [fn |-> "unused"]

CameraUnused == camera = [is_warping |-> FALSE] /\ cam_op = [name |-> "unused"]

FrameUnused ==
    /\ solar_system = [star |-> << >>, planets |-> << >>]
    /\ camera_eye = [x |-> 0, y |-> 0, z |-> 0]
    /\ show_orbits = FALSE
    /\ sphere_loaded = FALSE
    /\ pc = "unused"
    /\ frame_ops = << >>

NoMop == [fn |-> "none", outcome |-> "none", value |-> << >>]

MeshUnused ==
    /\ objfile = [nv |-> 0, has_vn |-> FALSE, faces |-> << >>]
    /\ objmodel = None
    /\ mop = NoMop

RasterUnused ==
    /\ triangle = <<[x |-> 0, y |-> 0, z |-> 0], [x |-> 0, y |-> 0, z |-> 0],
                    [x |-> 0, y |-> 0, z |-> 0]>>
    /\ screen = [w |-> 0, h |-> 0]
    /\ rcall = [fn |-> "none", skip_factor |-> 1, outcome |-> "none"]
    /\ fragments = << >>

-----------------------------------------------------------------------------
(* f32 helpers *)

Abs(a) == IF a < 0 THEN 0 - a ELSE a
Min(a, b) == IF a < b THEN a ELSE b
Max(a, b) == IF a > b THEN a ELSE b

\* f32::floor of a coordinate, as a whole number of pixels.
Floor(t) == t \div Pixel
\* f32::ceil of a coordinate, as a whole number of pixels.
Ceil(t) == 0 - ((0 - t) \div Pixel)
\* `f as i32`: truncation toward zero.
AsI32(t) == IF t >= 0 THEN t \div Pixel ELSE 0 - ((0 - t) \div Pixel)

-----------------------------------------------------------------------------
(* rasterizer.rs *)

\* A slip in the second product: by for ay.
edge_function_slip(ax, ay, bx, by, cx, cy) ==
    (cx - ax) * (by - ay) - (cy - by) * (bx - ax)

\* edge_function(ax, ay, bx, by, cx, cy)
edge_function(ax, ay, bx, by, cx, cy) ==
    (cx - ax) * (by - ay) - (cy - ay) * (bx - ax)

\* The degenerate test left out.
IsDegenerate_never(total_area) == FALSE

\* total_area.abs() < 0.001, the area being in ticks^2
IsDegenerate(total_area) == 1000 * Abs(total_area) < Pixel * Pixel

\* The bounding box without the clip to the screen's right and bottom edge.
ClippedBox_unclipped(tri, sw, sh) ==
    LET v0 == tri[1]
        v1 == tri[2]
        v2 == tri[3]
    IN  [min_x |-> Max(Floor(Min(Min(v0.x, v1.x), v2.x)), 0),
         max_x |-> Ceil(Max(Max(v0.x, v1.x), v2.x)),
         min_y |-> Max(Floor(Min(Min(v0.y, v1.y), v2.y)), 0),
         max_y |-> Ceil(Max(Max(v0.y, v1.y), v2.y))]

\* The bounding box clipped to the screen: lines 50-68 and 174-188.
ClippedBox(tri, sw, sh) ==
    LET v0 == tri[1]
        v1 == tri[2]
        v2 == tri[3]
        min_x == Floor(Min(Min(v0.x, v1.x), v2.x))
        max_x == Ceil(Max(Max(v0.x, v1.x), v2.x))
        min_y == Floor(Min(Min(v0.y, v1.y), v2.y))
        max_y == Ceil(Max(Max(v0.y, v1.y), v2.y))
        screen_min_x == 0
        screen_max_x == AsI32(sw) - 1
        screen_min_y == 0
        screen_max_y == AsI32(sh) - 1
    IN  [min_x |-> Max(min_x, screen_min_x),
         max_x |-> Min(max_x, screen_max_x),
         min_y |-> Max(min_y, screen_min_y),
         max_y |-> Min(max_y, screen_max_y)]

\* The signed area of the triangle: lines 76-80 and 194-198.
TotalArea(tri) ==
    edge_function(tri[1].x, tri[1].y, tri[2].x, tri[2].y, tri[3].x, tri[3].y)

\* The weights in the wrong order: w1 with z0 and w0 with z1.
Depth_swapped(e0, e1, e2, v0, v1, v2) == e1 * v0.z + e0 * v1.z + e2 * v2.z

\* let depth = w0 * v0.screen_position.z + w1 * ... + w2 * ...: its numerator,
\* the depth being this over the area.
Depth(e0, e1, e2, v0, v1, v2) == e0 * v0.z + e1 * v1.z + e2 * v2.z

\* The pixel test for triangles of positive area only: e0, e1, e2 >= 0.
ShadePixel_positive_only(tri, total_area, x, y) ==
    LET v0 == tri[1]
        v1 == tri[2]
        v2 == tri[3]
        px == x * Pixel + HalfPixel
        py == y * Pixel + HalfPixel
        e0 == edge_function(v1.x, v1.y, v2.x, v2.y, px, py)
        e1 == edge_function(v2.x, v2.y, v0.x, v0.y, px, py)
        e2 == edge_function(v0.x, v0.y, v1.x, v1.y, px, py)
    IN  IF e0 >= 0 /\ e1 >= 0 /\ e2 >= 0
        THEN << [screen_x |-> x, screen_y |-> y,
                 e0 |-> e0, e1 |-> e1, e2 |-> e2, area |-> total_area,
                 depth_num |-> Depth(e0, e1, e2, v0, v1, v2)] >>
        ELSE << >>

\* The body of the pixel loop at pixel (x, y): the Fragment pushed, as a
\* sequence of length 1, or the empty sequence.  The weights w0, w1, w2 are
\* e0 * inv, e1 * inv, e2 * inv with inv = 1 / area; the fragment keeps the
\* numerators and the area, and its depth as depth_num / area.
ShadePixel(tri, total_area, x, y) ==
    LET v0 == tri[1]
        v1 == tri[2]
        v2 == tri[3]
        px == x * Pixel + HalfPixel
        py == y * Pixel + HalfPixel
        inv_sign == IF total_area > 0 THEN 1 ELSE 0 - 1
        e0 == edge_function(v1.x, v1.y, v2.x, v2.y, px, py)
        e1 == edge_function(v2.x, v2.y, v0.x, v0.y, px, py)
        e2 == edge_function(v0.x, v0.y, v1.x, v1.y, px, py)
    IN  IF e0 * inv_sign >= 0 /\ e1 * inv_sign >= 0 /\ e2 * inv_sign >= 0
        THEN << [screen_x |-> x, screen_y |-> y,
                 e0 |-> e0, e1 |-> e1, e2 |-> e2, area |-> total_area,
                 depth_num |-> Depth(e0, e1, e2, v0, v1, v2)] >>
        ELSE << >>

\* for x in from..=to { body }: the fragments of one row.
RECURSIVE ForX(_, _, _, _, _)
ForX(tri, total_area, x, to, y) ==
    IF x > to THEN << >>
    ELSE ShadePixel(tri, total_area, x, y) \o ForX(tri, total_area, x + 1, to, y)

\* for y in from..=to { for x in ... }
RECURSIVE ForY(_, _, _, _, _)
ForY(tri, total_area, box, y, to) ==
    IF y > to THEN << >>
    ELSE ForX(tri, total_area, box.min_x, box.max_x, y)
           \o ForY(tri, total_area, box, y + 1, to)

\* rasterize_triangle(triangle, screen_width, screen_height)
rasterize_triangle(tri, sw, sh) ==
    LET box == ClippedBox(tri, sw, sh)
        total_area == TotalArea(tri)
    IN  IF box.min_x > box.max_x \/ box.min_y > box.max_y THEN << >>
        ELSE IF IsDegenerate(total_area) THEN << >>
        ELSE ForY(tri, total_area, box, box.min_y, box.max_y)

\* x += skip_factor on an i32, for skip_factor > 1: whether it overflows, and
\* the value it wraps to in a build without overflow checks.
AddOverflows(x, skip_factor) == x > I32Max - skip_factor
WrappingAdd(x, skip_factor) ==
    IF AddOverflows(x, skip_factor)
    THEN I32Min + ((x - (I32Max - skip_factor)) - 1)
    ELSE x + skip_factor

\* A pixel more than I32SqrtMax pixels to the left of or above the screen: it
\* is outside the bounding box of the triangle, so one of its weights is
\* negative and the loop body pushes nothing.  (Its edge functions are beyond
\* the integers of the model.)
FarOutside(x, y) == x < 0 - I32SqrtMax \/ y < 0 - I32SqrtMax

\* The loop stepping by 1 whatever the skip factor.
WhileX_step1(tri, total_area, x, to, y, skip_factor, checks) ==
    [panicked |-> FALSE, frags |-> ForX(tri, total_area, x, to, y)]

\* while x <= clipped_max_x { body; x += skip_factor }: the fragments of one
\* row, and whether x += skip_factor panicked (checks: the build has overflow
\* checks).
RECURSIVE WhileX(_, _, _, _, _, _, _)
WhileX(tri, total_area, x, to, y, skip_factor, checks) ==
    IF x <= to
    THEN LET here == IF FarOutside(x, y) THEN << >>
                     ELSE ShadePixel(tri, total_area, x, y)
         IN  IF checks /\ AddOverflows(x, skip_factor)
             THEN [panicked |-> TRUE, frags |-> here]
             ELSE LET rest == WhileX(tri, total_area, WrappingAdd(x, skip_factor),
                                     to, y, skip_factor, checks)
                  IN  [panicked |-> rest.panicked, frags |-> here \o rest.frags]
    ELSE [panicked |-> FALSE, frags |-> << >>]

\* while y <= clipped_max_y { ...; y += skip_factor }
RECURSIVE WhileY(_, _, _, _, _, _, _)
WhileY(tri, total_area, box, y, to, skip_factor, checks) ==
    IF y <= to
    THEN LET row == WhileX(tri, total_area, box.min_x, box.max_x, y,
                           skip_factor, checks)
         IN  IF row.panicked THEN row
             ELSE IF checks /\ AddOverflows(y, skip_factor)
             THEN [panicked |-> TRUE, frags |-> row.frags]
             ELSE LET rest == WhileY(tri, total_area, box, WrappingAdd(y, skip_factor),
                                     to, skip_factor, checks)
                  IN  [panicked |-> rest.panicked, frags |-> row.frags \o rest.frags]
    ELSE [panicked |-> FALSE, frags |-> << >>]

\* A call that returned its fragments, and one that panicked.
Returned(frags) == [outcome |-> "ok", fragments |-> frags]
Panicked == [outcome |-> "panic", fragments |-> << >>]

\* rasterize_triangle_lod(triangle, skip_factor, screen_width, screen_height):
\* its possible results, one for a build with overflow checks and one for a
\* build without.
rasterize_triangle_lod(tri, skip_factor, sw, sh) ==
    IF skip_factor <= 1 THEN {Returned(rasterize_triangle(tri, sw, sh))}
    ELSE
    LET box == ClippedBox(tri, sw, sh)
        total_area == TotalArea(tri)
    IN  IF box.min_x > box.max_x \/ box.min_y > box.max_y THEN {Returned(<< >>)}
        ELSE IF IsDegenerate(total_area) THEN {Returned(<< >>)}
        ELSE {LET run == WhileY(tri, total_area, box, box.min_y, box.max_y,
                                skip_factor, checks)
              IN  IF run.panicked THEN Panicked ELSE Returned(run.frags) :
                 checks \in BOOLEAN}

-----------------------------------------------------------------------------
(* World-space numbers.  A world coordinate and a radius are integers.  A   *)
(* value that the program divides is kept as a fraction [n, d], d > 0; a    *)
(* value divided by a vector length is kept as [num, den2], standing for    *)
(* num / sqrt(den2), so comparisons are exact and need no square root.      *)

Rat(n, d) == IF d < 0 THEN [n |-> 0 - n, d |-> 0 - d] ELSE [n |-> n, d |-> d]
RatAdd(a, b) == Rat(a.n * b.d + b.n * a.d, a.d * b.d)
RatMul(a, b) == Rat(a.n * b.n, a.d * b.d)
\* `f as i32` of a fraction: truncation toward zero.
RatAsI32(a) == IF a.n >= 0 THEN a.n \div a.d ELSE 0 - ((0 - a.n) \div a.d)

\* 1 / tan(fov_y / 2) for fov_y = PI / 4, which is 2.41421..., as 12 / 5.
FocalNum == 12
FocalDen == 5

-----------------------------------------------------------------------------
(* matrix.rs, renderer.rs: world_to_screen *)

\* view_matrix.transform_point(p) for the view matrix of create_view_matrix
\* (e, target (0,0,0), up (0,1,0)) with e on the positive z axis: forward is
\* (0,0,-1), right (1,0,0), actual_up (0,1,0), so the matrix is the
\* translation by -e.
ViewTransform(p, e) == [x |-> p.x - e.x, y |-> p.y - e.y, z |-> p.z - e.z]

\* projection_matrix.transform_point(v): x and y scaled by 1 / (aspect * tan)
\* and 1 / tan, w = -v.z, and the division by w only if w != 0.
ProjectionTransform(v, r) ==
    LET x == Rat(FocalNum * r.screen_height * v.x, FocalDen * r.screen_width)
        y == Rat(FocalNum * v.y, FocalDen)
        w == 0 - v.z
    IN  IF w # 0 THEN [x |-> RatMul(x, Rat(1, w)), y |-> RatMul(y, Rat(1, w))]
        ELSE [x |-> x, y |-> y]

\* viewport_matrix.transform_point(p): x * w/2 + w/2, -y * h/2 + h/2.
ViewportTransform(p, r) ==
    [x |-> RatAdd(RatMul(p.x, Rat(r.screen_width, 2)), Rat(r.screen_width, 2)),
     y |-> RatAdd(RatMul(p.y, Rat(0 - r.screen_height, 2)), Rat(r.screen_height, 2))]

\* Renderer::world_to_screen(world_pos, view_matrix)
world_to_screen(r, world_pos, e) ==
    ViewportTransform(ProjectionTransform(ViewTransform(world_pos, e), r), r)

-----------------------------------------------------------------------------
(* renderer.rs: render_celestial_body_to_framebuffer *)

\* vector_length(v), squared
vector_length_sq(v) == v.x * v.x + v.y * v.y + v.z * v.z

\* The distance the apparent radius is computed from, squared (line 1068):
\* let distance_to_camera = vector_length(body.position);
distance_to_camera_sq(b, e) == vector_length_sq(b.position)

\* (body.radius * self.screen_width) / (distance_to_camera * 2.0), as
\* num / sqrt(den2); den2 = 0 is the division by zero, which gives +infinity.
apparent_radius(r, b, e) ==
    [num |-> b.radius * r.screen_width, den2 |-> 4 * distance_to_camera_sq(b, e)]

\* ar < tn / td
ArLess(ar, tn, td) == (ar.num * td) * (ar.num * td) < tn * tn * ar.den2

\* `ar as i32`: the truncation, and i32::MAX for +infinity.
ArAsI32(ar) ==
    IF ar.den2 = 0 THEN I32Max
    ELSE CHOOSE k \in 0..ar.num :
            /\ k * k * ar.den2 <= ar.num * ar.num
            /\ (k + 1) * (k + 1) * ar.den2 > ar.num * ar.num

\* radius_i > I32SqrtMax for radius_i = ar as i32, i.e. ar >= I32SqrtMax + 1:
\* then x * x in the loop of render_simple_sphere_to_framebuffer overflows.
RadiusOverflows(ar) ==
    \/ ar.den2 = 0
    \/ /\ ar.num > I32SqrtMax
       /\ ar.num * ar.num >= (I32SqrtMax + 1) * (I32SqrtMax + 1) * ar.den2

\* The thresholds with <= for <.
face_skip_le(ar) ==
    IF ~ArLess(ar, 3, 1) /\ ~(ar.num * ar.num = 9 * ar.den2) THEN
        (IF ArLess(ar, 8, 1) THEN 4 ELSE IF ArLess(ar, 20, 1) THEN 2 ELSE 1)
    ELSE 8

\* let face_skip = if apparent_radius < 3.0 { 8 } else if ... (lines 1077-1085)
face_skip(ar) ==
    IF ArLess(ar, 3, 1) THEN 8
    ELSE IF ArLess(ar, 8, 1) THEN 4
    ELSE IF ArLess(ar, 20, 1) THEN 2
    ELSE 1

\* The out-of-range triangle ends the face (break for continue).
FanLoop_break(model, face_idx, face, i) ==
    LET RECURSIVE Loop(_)
        Loop(j) ==
            IF j >= Len(face) - 1 THEN << >>
            ELSE IF face[1] >= model.nvertices \/ face[j + 1] >= model.nvertices
                    \/ face[j + 2] >= model.nvertices
                 THEN << >>
                 ELSE << <<face_idx, j>> >> \o Loop(j + 1)
    IN  Loop(i)

\* for i in 1..face.vertices.len() - 1 { ... } (lines 1099-1155): the fan
\* triangles of one face that pass the index test and go on to be transformed,
\* culled, lit and rasterized, each as <<face_idx, i>>.  face[k + 1] is
\* face.vertices[k].
RECURSIVE FanLoop(_, _, _, _)
FanLoop(model, face_idx, face, i) ==
    IF i >= Len(face) - 1 THEN << >>
    ELSE LET v0_idx == face[1]
             v1_idx == face[i + 1]
             v2_idx == face[i + 2]
         IN  IF v0_idx >= model.nvertices \/ v1_idx >= model.nvertices
                \/ v2_idx >= model.nvertices
             THEN FanLoop(model, face_idx, face, i + 1)
             ELSE << <<face_idx, i>> >> \o FanLoop(model, face_idx, face, i + 1)

\* for (face_idx, face) in model.faces.iter().enumerate() { ... } (lines 1088-1156)
RECURSIVE FaceLoop(_, _, _)
FaceLoop(model, skip, face_idx) ==
    IF face_idx >= Len(model.faces) THEN << >>
    ELSE LET face == model.faces[face_idx + 1]
             rest == FaceLoop(model, skip, face_idx + 1)
         IN  IF skip > 1 /\ face_idx % skip # 0 THEN rest
             ELSE IF Len(face) < 3 THEN rest
             ELSE FanLoop(model, face_idx, face, 1) \o rest

\* render_obj_model_to_framebuffer(framebuffer, model, body, view_matrix): the
\* one thing it does.  Of the pixels it sets the model keeps only the list of
\* the triangles that reach the transform stage.
render_obj_model_to_framebuffer(r, model, b, e) ==
    LET ar == apparent_radius(r, b, e)
    IN  IF ArLess(ar, 3, 10)
        THEN {[outcome |-> "done", path |-> "obj", ar |-> ar, skipped |-> TRUE,
               face_skip |-> 0, processed |-> << >>, pixels |-> {}]}
        ELSE {[outcome |-> "done", path |-> "obj", ar |-> ar, skipped |-> FALSE,
               face_skip |-> face_skip(ar),
               processed |-> FaceLoop(model, face_skip(ar), 0), pixels |-> {}]}

\* render_simple_sphere_to_framebuffer(framebuffer, body, view_matrix): the
\* things it can do.  With radius_i above I32SqrtMax the products x * x and
\* radius_i * radius_i overflow: a panic in a build with overflow checks, and
\* otherwise a loop of 2^64 iterations.
render_simple_sphere_to_framebuffer(r, b, e) ==
    LET screen_pos == world_to_screen(r, b.position, e)
        ar == apparent_radius(r, b, e)
        center_x == RatAsI32(screen_pos.x)
        center_y == RatAsI32(screen_pos.y)
        radius_i == ArAsI32(ar)
    IN  IF RadiusOverflows(ar)
        THEN {[outcome |-> what, path |-> "simple", ar |-> ar, skipped |-> FALSE,
               face_skip |-> 0, processed |-> << >>, pixels |-> {}] :
                 what \in {"panic", "runaway"}}
        ELSE {[outcome |-> "done", path |-> "simple", ar |-> ar, skipped |-> FALSE,
               face_skip |-> 0, processed |-> << >>,
               pixels |-> {px \in (0..r.screen_width - 1) \X (0..r.screen_height - 1) :
                             LET x == px[1] - center_x
                                 y == px[2] - center_y
                             IN  /\ 0 - radius_i <= x /\ x <= radius_i
                                 /\ 0 - radius_i <= y /\ y <= radius_i
                                 /\ x * x + y * y <= radius_i * radius_i}]}

\* render_celestial_body_to_framebuffer(framebuffer, body, view_matrix)
render_celestial_body_to_framebuffer(r, b, e) ==
    IF r.sphere_model # None
    THEN render_obj_model_to_framebuffer(r, r.sphere_model[1], b, e)
    ELSE render_simple_sphere_to_framebuffer(r, b, e)

-----------------------------------------------------------------------------
(* One body rendered by an arbitrary renderer *)

BodyCoords == ((0 - 1)..MaxBodyCoord) \cup {FarCoord}
Bodies == [position : [x : BodyCoords, y : {0, 2}, z : BodyCoords], radius : 1..MaxRadius]
Eyes == {[x |-> 0, y |-> 0, z |-> EyeStep * k] : k \in 1..MaxEyeIdx}

Quad == <<0, 1, 2, 3>>
\* The mesh in which face `bad` is a quad whose index at place `at` is out of
\* range; bad = -1 is the mesh with every index in range.
Mesh(bad, at) ==
    [nvertices |-> MeshVertexCount,
     faces |-> [j \in 1..(MaxFaceIdx + 1) |->
                  IF j - 1 = bad THEN [Quad EXCEPT ![at + 1] = MeshVertexCount]
                  ELSE IF j % 2 = 1 THEN Quad ELSE <<0, 1, 2>>]]
Meshes == {Mesh(0 - 1, 0)} \cup {Mesh(bad, at) : bad \in {0, 1, MaxFaceIdx}, at \in 0..3}
Renderers == [screen_width : {RendererWidth}, screen_height : {RendererHeight},
              sphere_model : {Some(m) : m \in Meshes} \cup {None}]

BodyInit ==
    /\ renderer \in Renderers
    /\ body \in Bodies
    /\ eye \in Eyes
    /\ bout = NoBout
    /\ RasterUnused /\ MeshUnused /\ FrameUnused /\ AssemblyUnused /\ ShaderUnused /\ VertexUnused /\ CameraUnused

RenderBody ==
    /\ bout = NoBout
    /\ bout' \in render_celestial_body_to_framebuffer(renderer, body, eye)
    /\ UNCHANGED <<renderer, body, eye, rasterVars, meshVars, frameVars, assemblyVars, shaderVars, vertexVars, cameraVars>>

BodyNext == RenderBody

-----------------------------------------------------------------------------
(* obj_loader.rs, primitive_assembly.rs: the mesh operations.  A vertex is   *)
(* its index; a vertex list is its length.  An operation gives the set of   *)
(* its possible results [outcome, value], outcome "ok" or "panic".          *)

\* 0usize - 1 in a build without overflow checks: usize::MAX, kept as the
\* largest integer of the model; like usize::MAX it is above every length.
UsizeMax == 2147483647

Ok(v) == [outcome |-> "ok", value |-> v]
Panic == [outcome |-> "panic", value |-> << >>]

\* vertex_indices.push(v_idx - 1) for the tokens of one "f" line (lines 66-75):
\* the possible index lists.  v_idx - 1 with v_idx = 0 overflows: a panic in a
\* build with overflow checks, usize::MAX in one without.
RECURSIVE ParseFace(_)
ParseFace(tokens) ==
    IF tokens = << >> THEN {Ok(<< >>)}
    ELSE LET rest == ParseFace(Tail(tokens))
             v_idx == Head(tokens)
             firsts == IF v_idx = 0 THEN {Panic, Ok(UsizeMax)} ELSE {Ok(v_idx - 1)}
         IN  {IF f.outcome = "panic" \/ r.outcome = "panic" THEN Panic
              ELSE Ok(<<f.value>> \o r.value) : f \in firsts, r \in rest}

\* The "f" lines of the file, in order (lines 63-82): the possible face lists.
RECURSIVE ParseFaces(_)
ParseFaces(lines) ==
    IF lines = << >> THEN {Ok(<< >>)}
    ELSE {IF f.outcome = "panic" \/ r.outcome = "panic" THEN Panic
          ELSE IF Len(f.value) >= 3 THEN Ok(<<f.value>> \o r.value)
          ELSE r : f \in ParseFace(Head(lines)), r \in ParseFaces(Tail(lines))}

\* ObjModel::calculate_normals(vertices, faces): vertices[face.vertices[k]] for
\* k = 0, 1, 2 and normals[v_idx] for every index of the face are unchecked
\* indexings.  The value is, per vertex, the number of face normals added.
calculate_normals(nvertices, faces) ==
    IF \E i \in 1..Len(faces) :
          Len(faces[i]) >= 3 /\ \E k \in 1..Len(faces[i]) : faces[i][k] >= nvertices
    THEN {Panic}
    ELSE {Ok([v \in 0..nvertices - 1 |->
               Cardinality({t \in (1..Len(faces)) \X (1..MaxFaceLen) :
                              /\ Len(faces[t[1]]) >= 3 /\ t[2] <= Len(faces[t[1]])
                              /\ faces[t[1]][t[2]] = v})])}

\* ObjModel::load(path), for a file that opens and reads.
ObjModel_load(file) ==
    UNION {IF fs.outcome = "panic" THEN {Panic}
           ELSE LET model == Ok([nvertices |-> file.nv, faces |-> fs.value])
                IN  IF file.has_vn THEN {model}
                    ELSE {IF n.outcome = "panic" THEN Panic ELSE model :
                             n \in calculate_normals(file.nv, fs.value)} :
              fs \in ParseFaces(file.faces)}

\* ObjModel::get_triangles(&self): self.vertices[face.vertices[..]] is an
\* unchecked indexing.
get_triangles(model) ==
    IF \E i \in 1..Len(model.faces) :
          LET face == model.faces[i]
          IN  \E j \in 1..Len(face) - 2 :
                 \E k \in {1, j + 1, j + 2} : face[k] >= model.nvertices
    THEN {Panic}
    ELSE {Ok({<<i, j>> \in (1..Len(model.faces)) \X (1..MaxFaceLen) :
                j <= Len(model.faces[i]) - 2})}

\* assemble_triangles(vertices, indices): vertices[chunk[k]] is an unchecked
\* indexing.  The value is the list of index triples.
assemble_triangles(nvertices, indices) ==
    LET nchunks == Len(indices) \div 3
    IN  IF \E i \in 1..(3 * nchunks) : indices[i] >= nvertices
        THEN {Panic}
        ELSE {Ok([c \in 1..nchunks |->
                   <<indices[3 * c - 2], indices[3 * c - 1], indices[3 * c]>>])}

-----------------------------------------------------------------------------
(* The mesh operations on an arbitrary OBJ file and index list *)

FileIndices == 0..(MaxFileVertices + 1)
FileFaces == [1..3 -> FileIndices]
ObjFiles == [nv : {MaxFileVertices}, has_vn : BOOLEAN,
             faces : {<<f>> : f \in FileFaces \cup [1..MaxFaceLen -> FileIndices]}
                       \cup {<<f, g>> : f \in FileFaces, g \in FileFaces}]
IndexLists == UNION {[1..n -> 0..MaxFileVertices] : n \in 0..MaxIndices}

MeshInit ==
    /\ objfile \in ObjFiles
    /\ objmodel = None
    /\ mop = NoMop
    /\ RasterUnused /\ BodyUnused /\ FrameUnused /\ AssemblyUnused /\ ShaderUnused /\ VertexUnused /\ CameraUnused

\* Renderer::new: ObjModel::load("assets/sphere.obj")
Load ==
    /\ mop.fn = "none"
    /\ \E res \in ObjModel_load(objfile) :
          /\ mop' = [fn |-> "load", outcome |-> res.outcome, value |-> << >>]
          /\ objmodel' = IF res.outcome = "ok" THEN Some(res.value) ELSE None
    /\ UNCHANGED <<objfile, rasterVars, bodyVars, frameVars, assemblyVars, shaderVars, vertexVars, cameraVars>>

GetTriangles ==
    /\ mop.fn = "load" /\ objmodel # None
    /\ \E res \in get_triangles(objmodel[1]) :
          mop' = [fn |-> "get_triangles", outcome |-> res.outcome, value |-> res.value]
    /\ UNCHANGED <<objfile, objmodel, rasterVars, bodyVars, frameVars, assemblyVars, shaderVars, vertexVars, cameraVars>>

AssembleTriangles ==
    /\ mop.fn = "load" /\ objmodel # None
    /\ \E indices \in IndexLists :
          \E res \in assemble_triangles(objmodel[1].nvertices, indices) :
             mop' = [fn |-> "assemble_triangles", outcome |-> res.outcome,
                     value |-> <<indices, res.value>>]
    /\ UNCHANGED <<objfile, objmodel, rasterVars, bodyVars, frameVars, assemblyVars, shaderVars, vertexVars, cameraVars>>

MeshNext == Load \/ GetTriangles \/ AssembleTriangles

SpecMesh == MeshInit /\ [][MeshNext]_vars

-----------------------------------------------------------------------------
(* main.rs, renderer.rs, solar_system.rs: the frames of the main loop.       *)
(* Lengths are in half world units, so that every radius is an integer; the *)
(* apparent radius is a quotient of two lengths and keeps its value.        *)

SCREEN_WIDTH == 1200
SCREEN_HEIGHT == 800

Vec3(x, y, z) == [x |-> x, y |-> y, z |-> z]
VecSub(a, b) == Vec3(a.x - b.x, a.y - b.y, a.z - b.z)

\* CelestialBody::new_star / new_planet / new_moon, the fields the frame reads
CelestialBody(name, position, radius, moons) ==
    [name |-> name, position |-> position, radius |-> radius, moons |-> moons]

\* SolarSystem::new(): positions rounded to the half unit, e.g. Verdania at
\* 70 * (cos 72, 0, sin 72) = (21.63, 0, 66.57) and its moon 12 * (cos 45, 0,
\* sin 45) further.
SolarSystem_new ==
    [star |-> CelestialBody("Sol", Vec3(0, 0, 0), 30, << >>),
     planets |-> <<
        CelestialBody("Pyrion", Vec3(80, 0, 0), 6, << >>),
        CelestialBody("Verdania", Vec3(43, 0, 133), 10,
            <<CelestialBody("Luna Verde", Vec3(60, 0, 150), 3, << >>)>>),
        CelestialBody("Gigantus", Vec3(0 - 194, 0, 141), 16,
            <<CelestialBody("Titan Dorado", Vec3(0 - 166, 0, 169), 4, << >>),
              CelestialBody("Io Menor", Vec3(0 - 159, 0, 176), 2, << >>)>>),
        CelestialBody("Glacialis", Vec3(0 - 291, 0, 0 - 212), 12, << >>),
        CelestialBody("Plutonix", Vec3(155, 0, 0 - 476), 5, << >>) >>]

\* SolarSystem::get_all_bodies: the star, then each planet followed by its moons
RECURSIVE PlanetsAndMoons(_)
PlanetsAndMoons(planets) ==
    IF planets = << >> THEN << >>
    ELSE <<Head(planets)>> \o Head(planets).moons \o PlanetsAndMoons(Tail(planets))

get_all_bodies(ss) == <<ss.star>> \o PlanetsAndMoons(ss.planets)

\* CelestialBody::get_distance_from_camera, squared
get_distance_from_camera_sq(b, camera_pos) ==
    vector_length_sq(VecSub(b.position, camera_pos))

\* One insertion of the stable sort: b goes behind every body that is not
\* nearer than it.
RECURSIVE SortInsert(_, _, _)
SortInsert(sorted, b, camera_pos) ==
    IF sorted = << >> THEN <<b>>
    ELSE IF get_distance_from_camera_sq(Head(sorted), camera_pos)
              >= get_distance_from_camera_sq(b, camera_pos)
         THEN <<Head(sorted)>> \o SortInsert(Tail(sorted), b, camera_pos)
         ELSE <<b>> \o sorted

\* bodies.sort_by(|a, b| dist_b.partial_cmp(&dist_a)...): stable, farthest first
RECURSIVE sort_by(_, _, _)
sort_by(bodies, n, camera_pos) ==
    IF n = 0 THEN << >>
    ELSE SortInsert(sort_by(bodies, n - 1, camera_pos), bodies[n], camera_pos)

\* SolarSystem::get_bodies_sorted_by_distance(camera_pos)
get_bodies_sorted_by_distance(ss, camera_pos) ==
    LET bodies == get_all_bodies(ss)
    IN  sort_by(bodies, Len(bodies), camera_pos)

\* The calls of render_celestial_body_to_framebuffer made by
\*   for body in bodies { render(body); for moon in &body.moons { render(moon) } }
RECURSIVE BodyLoop(_)
BodyLoop(bodies) ==
    IF bodies = << >> THEN << >>
    ELSE <<Head(bodies)>> \o Head(bodies).moons \o BodyLoop(Tail(bodies))

Op(kind, name) == [op |-> kind, body |-> name]
BodyOps(calls) == [i \in 1..Len(calls) |-> Op("body", calls[i].name)]

\* Whether render_celestial_body_to_framebuffer(body) fails: without the mesh
\* it is render_simple_sphere_to_framebuffer, whose loop overflows.
BodyRenderFails(loaded, b, camera_pos) ==
    /\ ~loaded
    /\ RadiusOverflows(apparent_radius([screen_width |-> SCREEN_WIDTH], b, camera_pos))

\* The orbit lines drawn whether or not show_orbits is set.
render_solar_system_to_framebuffer_orbits_always(ss, camera_pos, orbits, loaded) ==
    LET calls == BodyLoop(get_bodies_sorted_by_distance(ss, camera_pos))
    IN  {[outcome |-> "done",
          ops |-> <<Op("gradient", ""), Op("stars", "")>> \o BodyOps(calls)
                    \o <<Op("orbits", "")>>]}

\* Renderer::render_solar_system_to_framebuffer(framebuffer, solar_system,
\* camera, show_orbits): the framebuffer operations it makes, and how it ends.
render_solar_system_to_framebuffer(ss, camera_pos, orbits, loaded) ==
    LET calls == BodyLoop(get_bodies_sorted_by_distance(ss, camera_pos))
        failing == {i \in 1..Len(calls) : BodyRenderFails(loaded, calls[i], camera_pos)}
        background == <<Op("gradient", ""), Op("stars", "")>>
    IN  IF failing = {}
        THEN {[outcome |-> "done",
               ops |-> background \o BodyOps(calls)
                         \o (IF orbits THEN <<Op("orbits", "")>> ELSE << >>)]}
        ELSE LET first == CHOOSE i \in failing : \A j \in failing : i <= j
             IN  {[outcome |-> what,
                   ops |-> background \o BodyOps(SubSeq(calls, 1, first))] :
                      what \in {"panic", "runaway"}}

\* Framebuffer::clear(), swap_buffers(), draw_to_screen()
Framebuffer_clear(ops) == Append(ops, Op("clear", ""))
Framebuffer_swap_buffers(ops) == Append(ops, Op("swap_buffers", ""))
Framebuffer_draw_to_screen(ops) == Append(ops, Op("draw_to_screen", ""))

-----------------------------------------------------------------------------
(* The main loop *)

Camera_new == Vec3(0, 100, 200)

\* camera.enforce_minimum_distance: the eye rests no nearer to a body than
\* 10 units and 2.5 times its radius.
KeepsDistance(e, ss) ==
    \A i \in 1..Len(get_all_bodies(ss)) :
       LET b == get_all_bodies(ss)[i]
           d2 == get_distance_from_camera_sq(b, e)
       IN  d2 >= 20 * 20 /\ 4 * d2 >= 25 * b.radius * b.radius

FrameEyeCoords == {k * FrameEyeStep - MaxFrameEyeIdx * FrameEyeStep :
                      k \in 0..(2 * MaxFrameEyeIdx)}
FrameEyes == {Camera_new} \cup
             {e \in [x : FrameEyeCoords, y : {0, 100}, z : FrameEyeCoords] :
                 KeepsDistance(e, SolarSystem_new)}

FrameInit ==
    /\ solar_system = SolarSystem_new
    /\ camera_eye = Camera_new
    /\ show_orbits = TRUE
    /\ sphere_loaded \in BOOLEAN
    /\ pc = "input"
    /\ frame_ops = << >>
    /\ RasterUnused /\ BodyUnused /\ MeshUnused /\ AssemblyUnused /\ ShaderUnused /\ VertexUnused /\ CameraUnused

\* handle_input, solar_system.update, camera.update, avoid_collision,
\* enforce_minimum_distance: a new frame begins.
HandleInput ==
    /\ pc = "input"
    /\ camera_eye' \in FrameEyes
    /\ show_orbits' \in BOOLEAN
    /\ frame_ops' = << >>
    /\ pc' = "clear"
    /\ UNCHANGED <<solar_system, sphere_loaded, rasterVars, bodyVars, meshVars, assemblyVars, shaderVars, vertexVars, cameraVars>>

\* framebuffer.clear()
Clear ==
    /\ pc = "clear"
    /\ frame_ops' = Framebuffer_clear(frame_ops)
    /\ pc' = "render"
    /\ UNCHANGED <<solar_system, camera_eye, show_orbits, sphere_loaded,
                   rasterVars, bodyVars, meshVars, assemblyVars, shaderVars, vertexVars, cameraVars>>

\* renderer.render_solar_system_to_framebuffer(...)
RenderSolarSystem ==
    /\ pc = "render"
    /\ \E res \in render_solar_system_to_framebuffer(solar_system, camera_eye,
                                                      show_orbits, sphere_loaded) :
          /\ frame_ops' = frame_ops \o res.ops
          /\ pc' = CASE res.outcome = "done" -> "swap"
                     [] res.outcome = "panic" -> "aborted"
                     [] OTHER -> "hung"
    /\ UNCHANGED <<solar_system, camera_eye, show_orbits, sphere_loaded,
                   rasterVars, bodyVars, meshVars, assemblyVars, shaderVars, vertexVars, cameraVars>>

\* framebuffer.swap_buffers(&mut rl, &thread)
SwapBuffers ==
    /\ pc = "swap"
    /\ frame_ops' = Framebuffer_swap_buffers(frame_ops)
    /\ pc' = "draw"
    /\ UNCHANGED <<solar_system, camera_eye, show_orbits, sphere_loaded,
                   rasterVars, bodyVars, meshVars, assemblyVars, shaderVars, vertexVars, cameraVars>>

\* framebuffer.draw_to_screen(&mut d); render_ui(...)
DrawToScreen ==
    /\ pc = "draw"
    /\ frame_ops' = Framebuffer_draw_to_screen(frame_ops)
    /\ pc' = "input"
    /\ UNCHANGED <<solar_system, camera_eye, show_orbits, sphere_loaded,
                   rasterVars, bodyVars, meshVars, assemblyVars, shaderVars, vertexVars, cameraVars>>

FrameNext == HandleInput \/ Clear \/ RenderSolarSystem \/ SwapBuffers \/ DrawToScreen

SpecFrame == FrameInit /\ [][FrameNext]_vars

-----------------------------------------------------------------------------
(* primitive_assembly.rs.  A vertex is its screen_position [x, y, z], in     *)
(* whole units; a Triangle is the sequence of its three vertices.            *)

\* The margin of is_on_screen
ScreenMargin == 10

\* The mean of the three depths, as the fraction sum / 3
centroid_z(tri) == Rat(tri[1].z + tri[2].z + tri[3].z, 3)
RatLess(a, b) == a.n * b.d < b.n * a.d

\* The products added instead of subtracted.
is_front_facing_sum(tri) ==
    LET edge1_x == tri[2].x - tri[1].x
        edge1_y == tri[2].y - tri[1].y
        edge2_x == tri[3].x - tri[1].x
        edge2_y == tri[3].y - tri[1].y
    IN  edge1_x * edge2_y + edge1_y * edge2_x > 0

\* Triangle::is_front_facing(&self)
is_front_facing(tri) ==
    LET v0 == tri[1]
        v1 == tri[2]
        v2 == tri[3]
        edge1_x == v1.x - v0.x
        edge1_y == v1.y - v0.y
        edge2_x == v2.x - v0.x
        edge2_y == v2.y - v0.y
        cross_z == edge1_x * edge2_y - edge1_y * edge2_x
    IN  cross_z > 0

\* The upper bounds with <= for <.
is_on_screen_le(tri, screen_width, screen_height) ==
    \E i \in 1..3 :
       /\ tri[i].x >= 0 - ScreenMargin /\ tri[i].x <= screen_width + ScreenMargin
       /\ tri[i].y >= 0 - ScreenMargin /\ tri[i].y <= screen_height + ScreenMargin

\* Triangle::is_on_screen(&self, screen_width, screen_height)
is_on_screen(tri, screen_width, screen_height) ==
    \E i \in 1..3 :
       /\ tri[i].x >= 0 - ScreenMargin /\ tri[i].x < screen_width + ScreenMargin
       /\ tri[i].y >= 0 - ScreenMargin /\ tri[i].y < screen_height + ScreenMargin

\* A strip instead of a fan: (i - 1, i, i + 1).
assemble_fan_triangles_strip(vertices) ==
    IF Len(vertices) < 3 THEN << >>
    ELSE [i \in 1..(Len(vertices) - 2) |->
            <<vertices[i], vertices[i + 1], vertices[i + 2]>>]

\* assemble_fan_triangles(vertices): for i in 1..(len - 1) the triangle
\* (vertices[0], vertices[i], vertices[i + 1]); sequences count from 1.
assemble_fan_triangles(vertices) ==
    IF Len(vertices) < 3 THEN << >>
    ELSE LET v0 == vertices[1]
         IN  [i \in 1..(Len(vertices) - 2) |->
                <<v0, vertices[i + 1], vertices[i + 2]>>]

\* The back faces removed whatever enable_backface_culling is.
cull_triangles_always(triangles, screen_width, screen_height, enable_backface_culling) ==
    SelectSeq(triangles,
              LAMBDA tri : is_on_screen(tri, screen_width, screen_height)
                           /\ is_front_facing(tri))

\* cull_triangles(triangles, screen_width, screen_height, enable_backface_culling)
cull_triangles(triangles, screen_width, screen_height, enable_backface_culling) ==
    SelectSeq(triangles,
              LAMBDA tri :
                 IF ~is_on_screen(tri, screen_width, screen_height) THEN FALSE
                 ELSE IF enable_backface_culling /\ ~is_front_facing(tri) THEN FALSE
                 ELSE TRUE)

\* One insertion of the stable sort: tri goes behind every triangle whose
\* centroid is not nearer than its own.
RECURSIVE DepthInsert(_, _)
DepthInsert(sorted, tri) ==
    IF sorted = << >> THEN <<tri>>
    ELSE IF RatLess(centroid_z(Head(sorted)), centroid_z(tri))
         THEN <<tri>> \o sorted
         ELSE <<Head(sorted)>> \o DepthInsert(Tail(sorted), tri)

RECURSIVE DepthSort(_, _)
DepthSort(triangles, n) ==
    IF n = 0 THEN << >>
    ELSE DepthInsert(DepthSort(triangles, n - 1), triangles[n])

\* The nearest triangle first.
sort_triangles_by_depth_ascending(triangles) ==
    LET sorted == DepthSort(triangles, Len(triangles))
    IN  [i \in 1..Len(sorted) |-> sorted[Len(sorted) + 1 - i]]

\* sort_triangles_by_depth(triangles): triangles.sort_by(|a, b|
\* b.centroid_z().partial_cmp(&a.centroid_z())...), a stable sort
sort_triangles_by_depth(triangles) == DepthSort(triangles, Len(triangles))

-----------------------------------------------------------------------------
(* One call of a function of primitive_assembly.rs on arbitrary arguments *)

\* Vertices at and around the bounds of is_on_screen
EdgeXs == {0 - ScreenMargin - 1, 0 - ScreenMargin, AssemblyWidth + ScreenMargin - 1,
           AssemblyWidth + ScreenMargin, AssemblyWidth + ScreenMargin + 1}
EdgeYs == {0 - ScreenMargin - 1, 0 - ScreenMargin, AssemblyHeight + ScreenMargin - 1,
           AssemblyHeight + ScreenMargin, AssemblyHeight + ScreenMargin + 1}
EdgePoints == [x : EdgeXs, y : EdgeYs, z : {0}]

\* Vertices of small triangles of both orientations
FacePoints == [x : (0 - 1)..2, y : (0 - 1)..2, z : {0}]

\* The triangle (dx, 0), (dx + 1, 0), (dx, 1), front-facing, the same
\* back-facing, and the same of zero area
FrontAt(dx) == <<[x |-> dx, y |-> 0, z |-> 0], [x |-> dx + 1, y |-> 0, z |-> 0],
                 [x |-> dx, y |-> 1, z |-> 0]>>
BackAt(dx) == <<FrontAt(dx)[1], FrontAt(dx)[3], FrontAt(dx)[2]>>
FlatAt(dx) == <<FrontAt(dx)[1], FrontAt(dx)[2], FrontAt(dx)[2]>>

\* Triangles on the screen, across its right bound, at the bound and beyond it
CullOffsets == {0, AssemblyWidth + ScreenMargin - 1, AssemblyWidth + ScreenMargin,
                AssemblyWidth + ScreenMargin + 1}
CullTriangles == {FrontAt(dx) : dx \in CullOffsets} \cup {BackAt(dx) : dx \in CullOffsets}
                    \cup {FlatAt(0)}

\* Triangles told apart by the x of their first vertex, with depths 0 .. MaxZ
DepthTriangles ==
    {<<[x |-> id, y |-> 0, z |-> z0], [x |-> 0, y |-> 0, z |-> z1],
       [x |-> 0, y |-> 0, z |-> MaxZ]>> : id \in 0..1, z0 \in 0..MaxZ, z1 \in 0..1}

\* The sequences over S of length up to n
SeqsUpTo(S, n) == UNION {[1..k -> S] : k \in 0..n}

\* Fans of vertices told apart by their x
Fans == {[i \in 1..n |-> [x |-> i - 1, y |-> 0, z |-> 0]] : n \in 0..MaxFanLen}

AssemblyInit ==
    /\ acall = [fn |-> "none"]
    /\ RasterUnused /\ BodyUnused /\ MeshUnused /\ FrameUnused /\ ShaderUnused /\ VertexUnused /\ CameraUnused

IsOnScreen ==
    /\ acall.fn = "none"
    /\ \E tri \in EdgePoints \X EdgePoints \X EdgePoints :
          acall' = [fn |-> "is_on_screen", tri |-> tri,
                    result |-> is_on_screen(tri, AssemblyWidth, AssemblyHeight)]
    /\ UNCHANGED <<rasterVars, bodyVars, meshVars, frameVars, shaderVars, vertexVars, cameraVars>>

\* is_front_facing on a triangle and on the triangle with its last two
\* vertices swapped
IsFrontFacing ==
    /\ acall.fn = "none"
    /\ \E tri \in FacePoints \X FacePoints \X FacePoints :
          acall' = [fn |-> "is_front_facing", tri |-> tri,
                    result |-> is_front_facing(tri),
                    swapped |-> is_front_facing(<<tri[1], tri[3], tri[2]>>)]
    /\ UNCHANGED <<rasterVars, bodyVars, meshVars, frameVars, shaderVars, vertexVars, cameraVars>>

CullTrianglesCall ==
    /\ acall.fn = "none"
    /\ \E triangles \in SeqsUpTo(CullTriangles, MaxTriangles), enable \in BOOLEAN :
          acall' = [fn |-> "cull_triangles", triangles |-> triangles,
                    enable_backface_culling |-> enable,
                    result |-> cull_triangles(triangles, AssemblyWidth,
                                              AssemblyHeight, enable)]
    /\ UNCHANGED <<rasterVars, bodyVars, meshVars, frameVars, shaderVars, vertexVars, cameraVars>>

SortTrianglesByDepth ==
    /\ acall.fn = "none"
    /\ \E triangles \in SeqsUpTo(DepthTriangles, MaxSortLen) :
          acall' = [fn |-> "sort_triangles_by_depth", triangles |-> triangles,
                    result |-> sort_triangles_by_depth(triangles)]
    /\ UNCHANGED <<rasterVars, bodyVars, meshVars, frameVars, shaderVars, vertexVars, cameraVars>>

AssembleFanTriangles ==
    /\ acall.fn = "none"
    /\ \E vertices \in Fans :
          acall' = [fn |-> "assemble_fan_triangles", vertices |-> vertices,
                    result |-> assemble_fan_triangles(vertices)]
    /\ UNCHANGED <<rasterVars, bodyVars, meshVars, frameVars, shaderVars, vertexVars, cameraVars>>

AssemblyNext ==
    \/ IsOnScreen \/ IsFrontFacing \/ CullTrianglesCall \/ SortTrianglesByDepth
    \/ AssembleFanTriangles

SpecAssembly == AssemblyInit /\ [][AssemblyNext]_vars

-----------------------------------------------------------------------------
(* fragment_shader.rs: the fragment shaders.  A Vector3 is [x, y, z] with
   integer components.  A normalized vector is [x, y, z, len2]: the vector
   (x, y, z) / sqrt(len2).  A dot product of two normalized vectors is
   [num, den2]: the number num / sqrt(den2).  Intensities and light factors
   are exact fractions [n, d] in lowest terms, an intensity being a number of
   IntensityDen-ths.  A Color is [r, g, b, a] with channels in 0..255. *)

IntensityDen == 10
PhongStep == 5
MaxHalfShininess == 1
U8Max == 255

RECURSIVE Gcd(_, _)
Gcd(a, b) == IF b = 0 THEN a ELSE Gcd(b, a % b)

\* The fraction n / d in lowest terms; d = 0 stands for what a division by
\* zero leaves behind (an infinity or NaN), which every operation passes on
Frac(n, d) ==
    IF d = 0 THEN [n |-> 0, d |-> 0]
    ELSE LET g == Gcd(Abs(n), d) IN [n |-> n \div g, d |-> d \div g]
FracAdd(a, b) == Frac(a.n * b.d + b.n * a.d, a.d * b.d)
FracMul(a, b) == Frac(a.n * b.n, a.d * b.d)
FracLess(a, b) == a.n * b.d < b.n * a.d
FracMin(a, b) == IF FracLess(b, a) THEN b ELSE a
FracZero == Frac(0, 1)
FracOne == Frac(1, 1)

RECURSIVE FracPow(_, _)
FracPow(a, k) == IF k = 0 THEN FracOne ELSE FracMul(a, FracPow(a, k - 1))

Intensity(i) == Frac(i, IntensityDen)

\* The integer square root
ISqrt(n) == CHOOSE r \in 0..n : r * r <= n /\ (r + 1) * (r + 1) > n

Vector3(x, y, z) == [x |-> x, y |-> y, z |-> z]

normalize_vector3(v) ==
    LET len2 == v.x * v.x + v.y * v.y + v.z * v.z
    IN  IF len2 > 0
        THEN [x |-> v.x, y |-> v.y, z |-> v.z, len2 |-> len2]
        ELSE [x |-> 0, y |-> 1, z |-> 0, len2 |-> 1]

dot_product(a, b) ==
    [num |-> a.x * b.x + a.y * b.y + a.z * b.z, den2 |-> a.len2 * b.len2]

\* f32::max(0.0) of a dot product
Max0(dot) == IF dot.num > 0 THEN dot ELSE [num |-> 0, den2 |-> 1]

\* A dot product of two vectors of whole length, as a fraction
DotAsFrac(dot) == Frac(dot.num, ISqrt(dot.den2))

\* The square of a dot product, as a fraction
DotSquared(dot) == Frac(dot.num * dot.num, dot.den2)

\* n_dot_h.powf(shininess) for the even shininess 2 * half
Powf(dot, half) == FracPow(DotSquared(dot), half)

\* Vector3::new(l.x + v.x, l.y + v.y, l.z + v.z) of two normalized vectors of
\* whole length, scaled by the product of the two lengths (the scale does not
\* change what normalize_vector3 makes of it)
HalfVector(l, v) ==
    LET ll == ISqrt(l.len2)
        lv == ISqrt(v.len2)
    IN  Vector3(l.x * lv + v.x * ll, l.y * lv + v.y * ll, l.z * lv + v.z * ll)

\* (channel as f32 * light_factor).clamp(0.0, 255.0) as u8: the cast truncates
ScaleChannel(channel, light_factor) ==
    LET product == channel * light_factor.n
    IN  IF product <= 0 THEN 0 ELSE Min(product \div light_factor.d, U8Max)

apply_lighting_to_color(color, light_factor) ==
    [r |-> ScaleChannel(color.r, light_factor),
     g |-> ScaleChannel(color.g, light_factor),
     b |-> ScaleChannel(color.b, light_factor),
     a |-> color.a]

total_light_unclamped(normal, config) ==
    LET normalized_normal == normalize_vector3(normal)
        light_dir == normalize_vector3(config.light_direction)
        diffuse_factor == Max0(dot_product(normalized_normal, light_dir))
    IN  FracAdd(Intensity(config.ambient_intensity),
                FracMul(Intensity(config.diffuse_intensity), DotAsFrac(diffuse_factor)))

\* total_light of fragment_shader
total_light(normal, config) ==
    LET normalized_normal == normalize_vector3(normal)
        ambient == Intensity(config.ambient_intensity)
        light_dir == normalize_vector3(config.light_direction)
        diffuse_factor == Max0(dot_product(normalized_normal, light_dir))
        diffuse == FracMul(Intensity(config.diffuse_intensity), DotAsFrac(diffuse_factor))
    IN  FracMin(FracAdd(ambient, diffuse), FracOne)

fragment_shader_always_lit(base_color, normal, config) ==
    apply_lighting_to_color(base_color, total_light(normal, config))

fragment_shader(base_color, normal, config) ==
    IF ~config.enable_lighting
    THEN base_color
    ELSE apply_lighting_to_color(base_color, total_light(normal, config))

phong_total_light_unguarded(normal, view_direction, light_direction, ambient, diffuse, specular, shininess) ==
    LET n == normalize_vector3(normal)
        l == normalize_vector3(light_direction)
        v == normalize_vector3(view_direction)
        n_dot_l == Max0(dot_product(n, l))
        h == normalize_vector3(HalfVector(l, v))
        n_dot_h == Max0(dot_product(n, h))
    IN  FracMin(FracAdd(FracAdd(Intensity(ambient),
                                FracMul(Intensity(diffuse), DotAsFrac(n_dot_l))),
                        FracMul(Intensity(specular), Powf(n_dot_h, shininess))),
                FracOne)

\* total_light of fragment_shader_phong; shininess is half the exponent
phong_total_light(normal, view_direction, light_direction, ambient, diffuse, specular, shininess) ==
    LET n == normalize_vector3(normal)
        l == normalize_vector3(light_direction)
        v == normalize_vector3(view_direction)
        ambient_component == Intensity(ambient)
        n_dot_l == Max0(dot_product(n, l))
        diffuse_component == FracMul(Intensity(diffuse), DotAsFrac(n_dot_l))
        h == normalize_vector3(HalfVector(l, v))
        n_dot_h == Max0(dot_product(n, h))
        specular_component ==
            IF n_dot_l.num > 0
            THEN FracMul(Intensity(specular), Powf(n_dot_h, shininess))
            ELSE FracZero
    IN  FracMin(FracAdd(FracAdd(ambient_component, diffuse_component),
                        specular_component),
                FracOne)

fragment_shader_phong(base_color, normal, view_direction, light_direction, ambient, diffuse, specular, shininess) ==
    apply_lighting_to_color(base_color,
        phong_total_light(normal, view_direction, light_direction,
                          ambient, diffuse, specular, shininess))

Color(r, g, b, a) == [r |-> r, g |-> g, b |-> b, a |-> a]

\* Color::BLUE, Color::RED, a gray and a translucent white
ShaderColors ==
    {Color(0, 121, 241, U8Max), Color(230, 41, 55, U8Max),
     Color(100, 100, 100, U8Max), Color(U8Max, U8Max, U8Max, 128)}

\* Vectors of whole length: the zero vector, unit vectors, and two vectors
\* that are not normalized
ShaderVectors ==
    {Vector3(0, 0, 0), Vector3(1, 0, 0), Vector3(0, 1, 0), Vector3(0, 0, 1),
     Vector3(0, 0 - 1, 0), Vector3(0, 2, 0), Vector3(3, 4, 0)}

Intensities == 0..IntensityDen
PhongIntensities == {i \in Intensities : i % PhongStep = 0}
HalfShininesses == 0..MaxHalfShininess

LightingConfigs ==
    [light_direction : ShaderVectors, ambient_intensity : Intensities,
     diffuse_intensity : Intensities, enable_lighting : BOOLEAN]

ShaderInit ==
    /\ scall = [fn |-> "none"]
    /\ RasterUnused /\ BodyUnused /\ MeshUnused /\ FrameUnused /\ AssemblyUnused
    /\ VertexUnused /\ CameraUnused

FragmentShader ==
    /\ scall.fn = "none"
    /\ \E base_color \in ShaderColors, normal \in ShaderVectors,
          config \in LightingConfigs :
          scall' = [fn |-> "fragment_shader", base_color |-> base_color,
                    normal |-> normal, config |-> config,
                    total_light |-> total_light(normal, config),
                    result |-> fragment_shader(base_color, normal, config)]
    /\ UNCHANGED <<rasterVars, bodyVars, meshVars, frameVars, assemblyVars, vertexVars, cameraVars>>

FragmentShaderPhong ==
    /\ scall.fn = "none"
    /\ \E base_color \in ShaderColors,
          normal \in ShaderVectors, view_direction \in ShaderVectors,
          light_direction \in ShaderVectors,
          ambient \in PhongIntensities, diffuse \in PhongIntensities,
          specular \in PhongIntensities, shininess \in HalfShininesses :
          scall' = [fn |-> "fragment_shader_phong", base_color |-> base_color,
                    normal |-> normal, view_direction |-> view_direction,
                    light_direction |-> light_direction,
                    ambient |-> ambient, diffuse |-> diffuse,
                    specular |-> specular, shininess |-> shininess,
                    total_light |-> phong_total_light(normal, view_direction,
                                        light_direction, ambient, diffuse,
                                        specular, shininess),
                    result |-> fragment_shader_phong(base_color, normal,
                                   view_direction, light_direction, ambient,
                                   diffuse, specular, shininess)]
    /\ UNCHANGED <<rasterVars, bodyVars, meshVars, frameVars, assemblyVars, vertexVars, cameraVars>>

ShaderNext == FragmentShader \/ FragmentShaderPhong

SpecShader == ShaderInit /\ [][ShaderNext]_vars

-----------------------------------------------------------------------------
(* matrix.rs, vertex_shader.rs: matrices and the vertex shader.  Every f32
   is an exact fraction [n, d]; a Matrix is a tuple of 4 rows of 4
   fractions, m[i][j] of the code being m[i + 1][j + 1]; a point is
   [x, y, z] with fraction components. *)

MaxPointCoord == 2
MaxTranslation == 2
MaxScale == 2

FI(i) == Frac(i, 1)
FracNeg(a) == Frac(0 - a.n, a.d)
FracSub(a, b) == FracAdd(a, FracNeg(b))
\* a / b
FracDiv(a, b) == IF b.n >= 0 THEN Frac(a.n * b.d, a.d * b.n)
                 ELSE Frac(0 - a.n * b.d, a.d * (0 - b.n))
FracMax(a, b) == IF FracLess(a, b) THEN b ELSE a

FracVec(x, y, z) == [x |-> x, y |-> y, z |-> z]
\* The point with the whole coordinates x, y, z
Point(x, y, z) == FracVec(FI(x), FI(y), FI(z))


new_matrix4(r0, r1, r2, r3) ==
    <<[j \in 1..4 |-> FI(r0[j])], [j \in 1..4 |-> FI(r1[j])],
      [j \in 1..4 |-> FI(r2[j])], [j \in 1..4 |-> FI(r3[j])]>>

Matrix_identity ==
    new_matrix4(<<1, 0, 0, 0>>, <<0, 1, 0, 0>>, <<0, 0, 1, 0>>, <<0, 0, 0, 1>>)

\* result.m[i][j] += self.m[i][k] * other.m[k][j] for k in 0..4
Matrix_multiply(self, other) ==
    [i \in 1..4 |-> [j \in 1..4 |->
        FracAdd(FracAdd(FracMul(self[i][1], other[1][j]),
                        FracMul(self[i][2], other[2][j])),
                FracAdd(FracMul(self[i][3], other[3][j]),
                        FracMul(self[i][4], other[4][j])))]]

\* self.m[i][0] * point.x + self.m[i][1] * point.y + self.m[i][2] * point.z
\* + self.m[i][3]
Row(self, i, point) ==
    FracAdd(FracAdd(FracMul(self[i][1], point.x), FracMul(self[i][2], point.y)),
            FracAdd(FracMul(self[i][3], point.z), self[i][4]))

\* The w of Matrix::transform_point
PointW(self, point) == Row(self, 4, point)

transform_point(self, point) ==
    LET x == Row(self, 1, point)
        y == Row(self, 2, point)
        z == Row(self, 3, point)
        w == PointW(self, point)
    IN  IF w # FracZero
        THEN FracVec(FracDiv(x, w), FracDiv(y, w), FracDiv(z, w))
        ELSE FracVec(x, y, z)

create_translation_matrix(x, y, z) ==
    <<<<FracOne, FracZero, FracZero, x>>, <<FracZero, FracOne, FracZero, y>>,
      <<FracZero, FracZero, FracOne, z>>,
      <<FracZero, FracZero, FracZero, FracOne>>>>

create_scale_matrix(x, y, z) ==
    <<<<x, FracZero, FracZero, FracZero>>, <<FracZero, y, FracZero, FracZero>>,
      <<FracZero, FracZero, z, FracZero>>,
      <<FracZero, FracZero, FracZero, FracOne>>>>

create_viewport_matrix(x, y, width, height) ==
    LET half_width == FracDiv(width, FI(2))
        half_height == FracDiv(height, FI(2))
    IN  <<<<half_width, FracZero, FracZero, FracAdd(x, half_width)>>,
          <<FracZero, FracNeg(half_height), FracZero, FracAdd(y, half_height)>>,
          <<FracZero, FracZero, FracOne, FracZero>>,
          <<FracZero, FracZero, FracZero, FracOne>>>>

\* Scale * Translation, the product the other way round
model_matrix_scale_last(b) ==
    Matrix_multiply(create_scale_matrix(b.radius, b.radius, b.radius),
        create_translation_matrix(b.position.x, b.position.y, b.position.z))

\* The model matrix of render_obj_model_to_framebuffer: Translation * Scale
model_matrix(b) ==
    LET scale_matrix == create_scale_matrix(b.radius, b.radius, b.radius)
        translation_matrix ==
            create_translation_matrix(b.position.x, b.position.y, b.position.z)
    IN  Matrix_multiply(translation_matrix, scale_matrix)

Epsilon == Frac(1, 1000)

\* The normal by the full matrix, translation included
transform_normal_translated(normal, model) ==
    LET transformed == FracVec(Row(model, 1, normal), Row(model, 2, normal),
                               Row(model, 3, normal))
        len2 == FracAdd(FracAdd(FracMul(transformed.x, transformed.x),
                                FracMul(transformed.y, transformed.y)),
                        FracMul(transformed.z, transformed.z))
    IN  IF FracLess(FracZero, len2)
        THEN [x |-> transformed.x, y |-> transformed.y, z |-> transformed.z,
              len2 |-> len2]
        ELSE [x |-> FracZero, y |-> FracOne, z |-> FracZero, len2 |-> FracOne]

\* transform_normal: the vector (x, y, z) / sqrt(len2)
transform_normal(normal, model) ==
    LET Linear(i) == FracAdd(FracAdd(FracMul(model[i][1], normal.x),
                                     FracMul(model[i][2], normal.y)),
                             FracMul(model[i][3], normal.z))
        transformed == FracVec(Linear(1), Linear(2), Linear(3))
        len2 == FracAdd(FracAdd(FracMul(transformed.x, transformed.x),
                                FracMul(transformed.y, transformed.y)),
                        FracMul(transformed.z, transformed.z))
    IN  IF FracLess(FracZero, len2)
        THEN [x |-> transformed.x, y |-> transformed.y, z |-> transformed.z,
              len2 |-> len2]
        ELSE [x |-> FracZero, y |-> FracOne, z |-> FracZero, len2 |-> FracOne]

\* clip_position of vertex_shader
ClipPosition(vertex_position, model, view, projection) ==
    LET world_position == transform_point(model, vertex_position)
        view_position == transform_point(view, world_position)
    IN  transform_point(projection, view_position)

\* The divisor without its lower bound
PerspectiveW_unclamped(clip_position) == clip_position.z

\* let w = clip_position.z.max(0.001)
PerspectiveW(clip_position) == FracMax(clip_position.z, Epsilon)

vertex_shader(vertex_position, vertex_normal, vertex_color, model, view, projection, viewport) ==
    LET world_normal == transform_normal(vertex_normal, model)
        clip_position == ClipPosition(vertex_position, model, view, projection)
        w == PerspectiveW(clip_position)
        ndc_position == FracVec(FracDiv(clip_position.x, w),
                                FracDiv(clip_position.y, w),
                                FracDiv(clip_position.z, w))
        screen_position == transform_point(viewport, ndc_position)
    IN  [screen_position |-> screen_position, world_normal |-> world_normal,
         color |-> vertex_color]

\* The matrix m with the translation column (x, y, z)
WithTranslation(m, t) ==
    [i \in 1..4 |-> [j \in 1..4 |->
        IF j = 4 /\ i < 4 THEN (IF i = 1 THEN t.x ELSE IF i = 2 THEN t.y ELSE t.z)
        ELSE m[i][j]]]

Translations == {Point(tx, 0, tz) : tx \in 0..MaxTranslation, tz \in 0..1}

\* Model-space points
ModelPoints ==
    {Point(x, y, z) : x \in (0 - 1)..1, y \in 0..1, z \in (0 - 1)..MaxPointCoord}

\* Normals: two unit vectors, one that is not normalized and the zero vector
VertexNormals == {Point(0, 1, 0), Point(1, 0, 0), Point(3, 4, 0), Point(0, 0, 0)}

\* The vertices: every point with the normal (0, 1, 0), and the point
\* (1, 1, 1) of the code's test with every normal
ShaderVertices ==
    (ModelPoints \X {Point(0, 1, 0)}) \cup ({Point(1, 1, 1)} \X VertexNormals)

\* The identity, uniform scales (the scale 0 included) and a quarter turn
\* around the y axis
LinearParts ==
    {create_scale_matrix(FI(k), FI(k), FI(k)) : k \in 0..MaxScale}
    \cup {new_matrix4(<<0, 0, 1, 0>>, <<0, 1, 0, 0>>, <<0 - 1, 0, 0, 0>>,
                      <<0, 0, 0, 1>>)}

ModelMatrices == {WithTranslation(m, t) : m \in LinearParts, t \in Translations}

ViewMatrices ==
    {Matrix_identity,
     create_translation_matrix(FracZero, FracZero, FI(0 - MaxTranslation))}

\* The identity and create_projection_matrix for a field of view of a right
\* angle, aspect 1, near 1 and far 2
ProjectionMatrices ==
    {Matrix_identity,
     new_matrix4(<<1, 0, 0, 0>>, <<0, 1, 0, 0>>, <<0, 0, 0 - 3, 0 - 4>>,
                 <<0, 0, 0 - 1, 0>>)}

ViewportMatrices ==
    {Matrix_identity,
     create_viewport_matrix(FracZero, FracZero, FI(RendererWidth), FI(RendererHeight))}

\* Bodies: position and radius, and two of the fields the model matrix does
\* not read
VertexBodies ==
    [position : Translations, radius : {Frac(k, 2) : k \in 0..(2 * MaxScale)},
     name : {"Sun", "Earth"}, has_rings : BOOLEAN]

VertexInit ==
    /\ vcall = [fn |-> "none"]
    /\ RasterUnused /\ BodyUnused /\ MeshUnused /\ FrameUnused /\ AssemblyUnused
    /\ ShaderUnused /\ CameraUnused

\* The model matrix of a body, and a point of the model transformed by it
ModelMatrix ==
    /\ vcall.fn = "none"
    /\ \E b \in VertexBodies :
          LET m == model_matrix(b)
          IN  \E point \in ModelPoints :
                  vcall' = [fn |-> "model_matrix", body |-> b, point |-> point,
                            model_matrix |-> m, w |-> PointW(m, point),
                            result |-> transform_point(m, point)]
    /\ UNCHANGED <<rasterVars, bodyVars, meshVars, frameVars, assemblyVars, shaderVars,
                 cameraVars>>

VertexShader ==
    /\ vcall.fn = "none"
    /\ \E vertex \in ShaderVertices, model \in ModelMatrices, view \in ViewMatrices,
          projection \in ProjectionMatrices, viewport \in ViewportMatrices :
          LET vertex_position == vertex[1]
              vertex_normal == vertex[2]
              clip_position == ClipPosition(vertex_position, model, view, projection)
          IN  vcall' = [fn |-> "vertex_shader",
                        vertex_position |-> vertex_position,
                        vertex_normal |-> vertex_normal,
                        model_matrix |-> model, view_matrix |-> view,
                        projection_matrix |-> projection,
                        viewport_matrix |-> viewport,
                        clip_position |-> clip_position,
                        w |-> PerspectiveW(clip_position),
                        result |-> vertex_shader(vertex_position, vertex_normal,
                                       "WHITE", model, view, projection, viewport)]
    /\ UNCHANGED <<rasterVars, bodyVars, meshVars, frameVars, assemblyVars, shaderVars,
                 cameraVars>>

VertexNext == ModelMatrix \/ VertexShader

SpecVertex == VertexInit /\ [][VertexNext]_vars

-----------------------------------------------------------------------------
(* camera.rs: the Camera.  Numbers are exact fractions and vectors have
   fraction components.  An angle is kept as [cos, sin], its cosine and
   sine: adding angles multiplies the pairs, and the model uses angles whose
   cosine and sine are fractions.  A square root is exact when the number is
   the square of a fraction and rounded down to a multiple of 1 / SqrtGrid
   otherwise. *)

SqrtGrid == 10
MaxCameraOps == 2

\* The one element of a set of one element.  An operator applied inside
\* {Op(x) : x \in {e}} works on the value of e, computed once
TheOne(S) == CHOOSE v \in S : TRUE

\* Euclid's algorithm
RECURSIVE NumGcd(_, _)
NumGcd(a, b) == IF b = 0 THEN a ELSE TheOne({NumGcd(y, x % y) : x \in {a}, y \in {b}})

\* The fraction n / d in lowest terms; d = 0 stands for an infinity or NaN
NumLowest(n, d) ==
    IF d = 0 THEN [n |-> 0, d |-> 0]
    ELSE TheOne({[n |-> n \div g, d |-> d \div g] : g \in {NumGcd(Abs(n), d)}})
Num(n, d) == TheOne({NumLowest(x, y) : x \in {n}, y \in {d}})
NumInt(i) == Num(i, 1)

\* The sum, the product and the order of two fractions, common factors of
\* the denominators taken out before multiplying
NumSum(a, b) ==
    LET g == NumGcd(a.d, b.d)
    IN  IF g = 0 THEN Num(0, 0)
        ELSE Num(a.n * (b.d \div g) + b.n * (a.d \div g), (a.d \div g) * b.d)
NumAdd(a, b) == TheOne({NumSum(x, y) : x \in {a}, y \in {b}})
NumProduct(a, b) ==
    LET g == NumGcd(Abs(a.n), b.d)
        h == NumGcd(Abs(b.n), a.d)
    IN  IF g = 0 \/ h = 0 THEN Num(a.n * b.n, a.d * b.d)
        ELSE Num((a.n \div g) * (b.n \div h), (a.d \div h) * (b.d \div g))
NumMul(a, b) == TheOne({NumProduct(x, y) : x \in {a}, y \in {b}})
NumBelow(a, b) ==
    LET g == NumGcd(a.d, b.d)
    IN  IF g = 0 THEN FALSE ELSE a.n * (b.d \div g) < b.n * (a.d \div g)
NumLess(a, b) == TheOne({NumBelow(x, y) : x \in {a}, y \in {b}})
NumNeg(a) == Num(0 - a.n, a.d)
NumSub(a, b) == NumAdd(a, NumNeg(b))
\* a / b
NumDiv(a, b) == IF b.n >= 0 THEN Num(a.n * b.d, a.d * b.n)
                ELSE Num(0 - a.n * b.d, a.d * (0 - b.n))
NumMax(a, b) == IF NumLess(a, b) THEN b ELSE a

\* The greatest r in lo..hi with r * r <= n
RECURSIVE SqrtSearch(_, _, _)
SqrtSearch(n, lo, hi) ==
    IF lo = hi THEN lo
    ELSE TheOne({IF mid * mid <= n THEN SqrtSearch(n, mid, hi)
                 ELSE SqrtSearch(n, lo, mid - 1) : mid \in {(lo + hi + 1) \div 2}})

\* The integer square root
NumISqrt(n) == TheOne({SqrtSearch(x, 0, Min(x, I32SqrtMax)) : x \in {n}})

IsSquare(n) == NumISqrt(n) * NumISqrt(n) = n

\* f32::sqrt
NumSqrt(q) ==
    IF q.n < 0 \/ q.d = 0 THEN Num(0, 0)
    ELSE IF IsSquare(q.n) /\ IsSquare(q.d)
    THEN Num(NumISqrt(q.n), NumISqrt(q.d))
    ELSE LET k == q.d \div (I32Max \div (SqrtGrid * SqrtGrid)) + 1
             n == q.n \div k
             d == q.d \div k
         IN  Num(NumISqrt((n \div d) * SqrtGrid * SqrtGrid
                        + ((n % d) * SqrtGrid * SqrtGrid) \div d), SqrtGrid)

NumClamp(a, lo, hi) == IF NumLess(a, lo) THEN lo ELSE IF NumLess(hi, a) THEN hi ELSE a

\* Vector3 + Vector3, Vector3 - Vector3, Vector3 * f32 and the cross product
VSum(a, b) == FracVec(NumAdd(a.x, b.x), NumAdd(a.y, b.y), NumAdd(a.z, b.z))
VAdd(a, b) == TheOne({VSum(u, v) : u \in {a}, v \in {b}})
VDifference(a, b) == FracVec(NumSub(a.x, b.x), NumSub(a.y, b.y), NumSub(a.z, b.z))
VSub(a, b) == TheOne({VDifference(u, v) : u \in {a}, v \in {b}})
VScaled(a, k) == FracVec(NumMul(a.x, k), NumMul(a.y, k), NumMul(a.z, k))
VScale(a, k) == TheOne({VScaled(u, v) : u \in {a}, v \in {k}})
VCrossed(a, b) ==
    FracVec(NumSub(NumMul(a.y, b.z), NumMul(a.z, b.y)),
            NumSub(NumMul(a.z, b.x), NumMul(a.x, b.z)),
            NumSub(NumMul(a.x, b.y), NumMul(a.y, b.x)))
VCross(a, b) == TheOne({VCrossed(u, v) : u \in {a}, v \in {b}})
SquareSum(v) == NumAdd(NumAdd(NumMul(v.x, v.x), NumMul(v.y, v.y)), NumMul(v.z, v.z))

Lcm(a, b) == (a \div NumGcd(a, b)) * b

\* The squares of the components of v and their sum fit in 32 bits
FitsSquares(v) ==
    /\ \A q \in {v.x, v.y, v.z} : q.d \in 1..I32SqrtMax
    /\ Lcm(v.x.d, v.y.d) <= I32SqrtMax
    /\ LET l == Lcm(Lcm(v.x.d, v.y.d), v.z.d)
       IN  /\ l <= I32SqrtMax
           /\ \A q \in {v.x, v.y, v.z} :
                  Abs(q.n) <= (I32SqrtMax \div 2) \div (l \div q.d)

\* q rounded down to a multiple of 1 / SqrtGrid
NumFloor(q) ==
    IF q.d = 0 THEN q
    ELSE Num((q.n \div q.d) * SqrtGrid + ((q.n % q.d) * SqrtGrid) \div q.d, SqrtGrid)

\* v.x * v.x + v.y * v.y + v.z * v.z, of the components rounded down to
\* multiples of 1 / SqrtGrid when the exact squares do not fit
VLen2(v) ==
    IF FitsSquares(v) \/ v.x.d = 0 \/ v.y.d = 0 \/ v.z.d = 0 THEN SquareSum(v)
    ELSE SquareSum(FracVec(NumFloor(v.x), NumFloor(v.y), NumFloor(v.z)))

vector_length(v) == NumSqrt(VLen2(v))

normalize_vector(v) ==
    LET length == vector_length(v)
    IN  IF NumLess(FracZero, length)
        THEN FracVec(NumDiv(v.x, length), NumDiv(v.y, length), NumDiv(v.z, length))
        ELSE Point(0, 0, 0)

Angle(c, s) == [cos |-> c, sin |-> s]
AngleZero == Angle(FracOne, FracZero)
AngleNeg(a) == Angle(a.cos, NumNeg(a.sin))
AngleAdd(a, b) ==
    Angle(NumSub(NumMul(a.cos, b.cos), NumMul(a.sin, b.sin)),
          NumAdd(NumMul(a.sin, b.cos), NumMul(a.cos, b.sin)))

\* y.atan2(x)
Atan2(y, x) ==
    LET length == NumSqrt(NumAdd(NumMul(x, x), NumMul(y, y)))
    IN  IF NumLess(FracZero, length)
        THEN Angle(NumDiv(x, length), NumDiv(y, length))
        ELSE AngleZero

\* y.asin() for -1 <= y <= 1
Asin(y) == Angle(NumSqrt(NumSub(FracOne, NumMul(y, y))), y)

\* PI/2.0 - 0.1: cos 0.0998 as 40/401 and sin 0.9950 as 399/401
PitchLimit == Angle(Num(40, 401), Num(399, 401))

\* pitch.clamp(-PI/2.0 + 0.1, PI/2.0 - 0.1) for a pitch within a half turn
\* of the range
ClampPitch(pitch) ==
    IF NumLess(pitch.cos, PitchLimit.cos)
    THEN IF NumLess(FracZero, pitch.sin) THEN PitchLimit ELSE AngleNeg(PitchLimit)
    ELSE pitch

\* 0.5f32.cos() and 0.5f32.sin(): 0.8776 as 108/119 and 0.4794 as 288/595,
\* which keeps the length of the warp offset a fraction
OffsetCos == Num(108, 119)
OffsetSin == Num(288, 595)

Camera_new_at(position, target, up) ==
    LET direction_vec == VSub(position, target)
        distance == vector_length(direction_vec)
        direction == normalize_vector(direction_vec)
        yaw == Atan2(direction.z, direction.x)
        pitch == Asin(direction.y)
    IN  [eye |-> position, target |-> target, up |-> up,
         yaw |-> yaw, pitch |-> ClampPitch(pitch), distance |-> distance,
         rotation_speed |-> NumInt(2), zoom_speed |-> NumInt(50), pan_speed |-> NumInt(30),
         move_speed |-> NumInt(100),
         is_warping |-> FALSE, warp_start_pos |-> Point(0, 0, 0),
         warp_target_pos |-> Point(0, 0, 0), warp_progress |-> FracZero,
         warp_duration |-> NumInt(2)]

SmoothStep(t) == NumMul(NumMul(t, t), NumSub(NumInt(3), NumMul(NumInt(2), t)))
smooth_step(t) == TheOne({SmoothStep(u) : u \in {t}})

update_camera_position(cam) ==
    IF ~cam.is_warping
    THEN LET x == NumAdd(cam.target.x,
                     NumMul(cam.distance, NumMul(cam.yaw.cos, cam.pitch.cos)))
             y == NumAdd(cam.target.y, NumMul(cam.distance, cam.pitch.sin))
             z == NumAdd(cam.target.z,
                     NumMul(cam.distance, NumMul(cam.yaw.sin, cam.pitch.cos)))
         IN  [cam EXCEPT !.eye = FracVec(x, y, z)]
    ELSE cam

\* update without the end of the warp
update_never_done(cam, dt) ==
    IF cam.is_warping
    THEN LET t == smooth_step(cam.warp_progress)
         IN  [cam EXCEPT !.eye = VAdd(cam.warp_start_pos,
                              VScale(VSub(cam.warp_target_pos, cam.warp_start_pos), t))]
    ELSE update_camera_position(cam)

\* Camera::update
update(cam, dt) ==
    LET warped ==
            IF cam.is_warping
            THEN LET warp_progress ==
                         NumAdd(cam.warp_progress, NumDiv(dt, cam.warp_duration))
                 IN  IF ~NumLess(warp_progress, FracOne)
                     THEN [cam EXCEPT !.warp_progress = FracOne,
                                      !.is_warping = FALSE,
                                      !.eye = cam.warp_target_pos]
                     ELSE LET t == smooth_step(warp_progress)
                          IN  [cam EXCEPT
                                 !.warp_progress = warp_progress,
                                 !.eye = VAdd(cam.warp_start_pos,
                                     VScale(VSub(cam.warp_target_pos,
                                                 cam.warp_start_pos), t))]
            ELSE cam
    IN  update_camera_position(warped)

\* rotate, its arguments being delta_x * rotation_speed and
\* delta_y * rotation_speed as angles
rotate(cam, turn_x, turn_y) ==
    IF ~cam.is_warping
    THEN [cam EXCEPT !.yaw = AngleAdd(cam.yaw, AngleNeg(turn_x)),
                     !.pitch = ClampPitch(AngleAdd(cam.pitch, turn_y))]
    ELSE cam

zoom(cam, delta) ==
    IF ~cam.is_warping
    THEN [cam EXCEPT !.distance =
              NumClamp(NumSub(cam.distance, NumMul(delta, cam.zoom_speed)),
                        NumInt(10), NumInt(1000))]
    ELSE cam

get_forward_vector(cam) == normalize_vector(VSub(cam.target, cam.eye))
get_right_vector(cam) == normalize_vector(VCross(get_forward_vector(cam), cam.up))
get_up_vector(cam) ==
    normalize_vector(VCross(get_right_vector(cam), get_forward_vector(cam)))

pan(cam, delta_x, delta_y) ==
    IF ~cam.is_warping
    THEN LET right == get_right_vector(cam)
             up == get_up_vector(cam)
             pan_amount == NumMul(NumMul(cam.pan_speed, cam.distance), Num(1, 1000))
         IN  [cam EXCEPT !.target =
                 VAdd(VAdd(cam.target, VScale(VScale(right, delta_x), pan_amount)),
                      VScale(VScale(up, delta_y), pan_amount))]
    ELSE cam

move_camera(cam, movement, dt) ==
    IF ~cam.is_warping
    THEN LET forward == get_forward_vector(cam)
             right == get_right_vector(cam)
             up == get_up_vector(cam)
             move_amount == NumMul(cam.move_speed, dt)
             movement_world ==
                 VAdd(VAdd(VScale(VScale(forward, movement.z), move_amount),
                           VScale(VScale(right, movement.x), move_amount)),
                      VScale(VScale(up, movement.y), move_amount))
         IN  [cam EXCEPT !.target = VAdd(cam.target, movement_world)]
    ELSE cam

\* The offset of warp_to_planet and instant_warp_to_planet
WarpOffset(warp_distance) ==
    FracVec(NumMul(warp_distance, OffsetCos), NumMul(warp_distance, Num(3, 10)),
            NumMul(warp_distance, OffsetSin))

WarpDistance(planet) == NumAdd(NumMul(planet.radius, NumInt(4)), NumInt(20))

\* Starts the warp to warp_target_pos around target
StartWarp(cam, warp_target_pos, target, distance) ==
    [cam EXCEPT !.warp_start_pos = cam.eye, !.warp_target_pos = warp_target_pos,
                !.target = target, !.distance = distance,
                !.is_warping = TRUE, !.warp_progress = FracZero]

warp_to_planet(cam, planet) ==
    IF ~cam.is_warping
    THEN LET warp_distance == WarpDistance(planet)
         IN  StartWarp(cam, VAdd(planet.position, WarpOffset(warp_distance)),
                       planet.position, warp_distance)
    ELSE cam

instant_warp_to_planet(cam, planet) ==
    LET warp_distance == WarpDistance(planet)
        new_eye == VAdd(planet.position, WarpOffset(warp_distance))
        direction == normalize_vector(VSub(new_eye, planet.position))
    IN  [cam EXCEPT !.eye = new_eye, !.target = planet.position,
                    !.distance = warp_distance,
                    !.yaw = Atan2(direction.z, direction.x),
                    !.pitch = ClampPitch(Asin(direction.y)),
                    !.is_warping = FALSE, !.warp_progress = FracZero]

warp_to_sun(cam) ==
    IF ~cam.is_warping
    THEN LET warp_distance == NumInt(80)
             offset == FracVec(warp_distance, NumMul(warp_distance, Num(2, 5)),
                               NumMul(warp_distance, Num(3, 5)))
         IN  StartWarp(cam, VAdd(Point(0, 0, 0), offset), Point(0, 0, 0), warp_distance)
    ELSE cam

warp_to_system_overview(cam) ==
    IF ~cam.is_warping
    THEN LET overview_distance == NumInt(400)
             offset == FracVec(FracZero, NumMul(overview_distance, Num(4, 5)),
                               NumMul(overview_distance, Num(3, 5)))
         IN  StartWarp(cam, VAdd(Point(0, 0, 0), offset), Point(0, 0, 0),
                       overview_distance)
    ELSE cam

\* set_target without the test of is_warping
set_target_always(cam, new_target) == [cam EXCEPT !.target = new_target]

set_target(cam, new_target) ==
    IF ~cam.is_warping THEN [cam EXCEPT !.target = new_target] ELSE cam

\* The loop that finds the closest body: [body, min_distance] or None
RECURSIVE ClosestBody(_, _, _, _)
ClosestBody(cam, bodies, i, closest) ==
    IF i > Len(bodies) THEN closest
    ELSE LET distance_to_body == vector_length(VSub(cam.eye, bodies[i].position))
         IN  IF closest = None \/ NumLess(distance_to_body, closest[1].min_distance)
             THEN ClosestBody(cam, bodies, i + 1,
                      Some([body |-> bodies[i], min_distance |-> distance_to_body]))
             ELSE ClosestBody(cam, bodies, i + 1, closest)

enforce_minimum_distance(cam, bodies) ==
    IF cam.is_warping THEN cam
    ELSE LET closest == ClosestBody(cam, bodies, 1, None)
         IN  IF closest = None THEN cam
             ELSE LET b == closest[1].body
                      dynamic_min_distance == NumMul(b.radius, Num(5, 2))
                      absolute_min_distance == NumMax(NumInt(10), dynamic_min_distance)
                  IN  IF NumLess(closest[1].min_distance, absolute_min_distance)
                      THEN LET direction == normalize_vector(VSub(cam.eye, b.position))
                               new_eye == VAdd(b.position,
                                           VScale(direction, absolute_min_distance))
                           IN  [cam EXCEPT !.eye = new_eye,
                                   !.distance = vector_length(VSub(new_eye, cam.target))]
                      ELSE cam

check_collision(cam, b) ==
    NumLess(vector_length(VSub(cam.eye, b.position)), NumMul(b.radius, Num(3, 2)))

RECURSIVE avoid_collision_from(_, _, _)
avoid_collision_from(cam, bodies, i) ==
    IF i > Len(bodies) THEN cam
    ELSE LET b == bodies[i]
         IN  IF check_collision(cam, b)
             THEN LET direction == normalize_vector(VSub(cam.eye, b.position))
                      safe_distance == NumMul(b.radius, Num(8, 5))
                      new_eye == VAdd(b.position, VScale(direction, safe_distance))
                      target ==
                          IF NumLess(vector_length(VSub(cam.target, b.position)),
                                      NumMul(b.radius, Num(6, 5)))
                          THEN VAdd(b.position,
                                    VScale(direction, NumMul(b.radius, NumInt(2))))
                          ELSE cam.target
                  IN  avoid_collision_from(
                          [cam EXCEPT !.eye = new_eye,
                                      !.distance = vector_length(VSub(new_eye, cam.target)),
                                      !.target = target],
                          bodies, i + 1)
             ELSE avoid_collision_from(cam, bodies, i + 1)

avoid_collision(cam, bodies) == avoid_collision_from(cam, bodies, 1)

MaxDt == 3

\* Frame times: halves of a second, up to MaxDt of them
Dts == {Num(k, 2) : k \in 1..MaxDt}

\* The eye of the camera of main, at a distance of the target that is a
\* whole number
CameraEyes == {Point(0, 60, 80)}

\* The mouse turns of rotate: to the left, up beyond the limit of the pitch,
\* and down
QuarterTurn == Angle(FracZero, FracOne)
Turns ==
    {<<QuarterTurn, AngleZero>>, <<AngleZero, QuarterTurn>>,
     <<AngleZero, AngleNeg(QuarterTurn)>>}

CameraSun == [position |-> Point(0, 0, 0), radius |-> NumInt(10)]
CameraPlanet == [position |-> Point(40, 0, 0), radius |-> NumInt(2)]
CameraBodies == <<CameraSun, CameraPlanet>>

CameraInit ==
    /\ camera \in {Camera_new_at(position, Point(0, 0, 0), Point(0, 1, 0)) :
                      position \in CameraEyes}
    /\ cam_op = [name |-> "new", warping |-> FALSE, n |-> 0]
    /\ RasterUnused /\ BodyUnused /\ MeshUnused /\ FrameUnused /\ AssemblyUnused
    /\ ShaderUnused /\ VertexUnused

OtherVarsUnchanged ==
    UNCHANGED <<rasterVars, bodyVars, meshVars, frameVars, assemblyVars, shaderVars,
                vertexVars>>

\* At most MaxCameraOps operations other than update are taken
CanOperate == cam_op.n < MaxCameraOps

\* One operation other than update: camera becomes cam
Operation(name, cam) ==
    /\ camera' = cam
    /\ cam_op' = [name |-> name, warping |-> camera.is_warping, n |-> cam_op.n + 1]
    /\ OtherVarsUnchanged

\* camera.update(dt) with dt > 0
Update ==
    /\ \E dt \in Dts : camera' = update(camera, dt)
    /\ cam_op' = [cam_op EXCEPT !.name = "update", !.warping = camera.is_warping]
    /\ OtherVarsUnchanged

\* camera.update(0.0)
UpdateZero ==
    /\ camera' = update(camera, FracZero)
    /\ cam_op' = [cam_op EXCEPT !.name = "update", !.warping = camera.is_warping]
    /\ OtherVarsUnchanged

Rotate ==
    /\ CanOperate
    /\ \E turn \in Turns : Operation("rotate", rotate(camera, turn[1], turn[2]))

Zoom ==
    /\ CanOperate
    /\ \E delta \in {Num(1, 5), NumInt(0 - 100)} : Operation("zoom", zoom(camera, delta))

\* The length of v is a fraction
ExactLength(v) == IsSquare(VLen2(v).n) /\ IsSquare(VLen2(v).d)

\* The mouse and keyboard moves are taken while the camera warps or while
\* the forward and right vectors of the camera have fraction components
Movable ==
    \/ camera.is_warping
    \/ /\ ExactLength(VSub(camera.target, camera.eye))
       /\ ExactLength(VCross(get_forward_vector(camera), camera.up))

Pan ==
    /\ CanOperate /\ Movable
    /\ Operation("pan", pan(camera, FracOne, FracOne))

MoveCamera ==
    /\ CanOperate /\ Movable
    /\ Operation("move_camera", move_camera(camera, Point(0, 0, 0 - 1), Num(1, 2)))

SetTarget ==
    /\ CanOperate
    /\ Operation("set_target", set_target(camera, CameraPlanet.position))

WarpToPlanet ==
    /\ CanOperate
    /\ Operation("warp_to_planet", warp_to_planet(camera, CameraPlanet))

InstantWarpToPlanet ==
    /\ CanOperate
    /\ Operation("instant_warp_to_planet", instant_warp_to_planet(camera, CameraPlanet))

WarpToSun ==
    /\ CanOperate
    /\ Operation("warp_to_sun", warp_to_sun(camera))

WarpToSystemOverview ==
    /\ CanOperate
    /\ Operation("warp_to_system_overview", warp_to_system_overview(camera))

EnforceMinimumDistance ==
    /\ CanOperate
    /\ Operation("enforce_minimum_distance",
                 enforce_minimum_distance(camera, CameraBodies))

AvoidCollision ==
    /\ CanOperate
    /\ Operation("avoid_collision", avoid_collision(camera, CameraBodies))

CameraNext ==
    \/ Update \/ UpdateZero \/ Rotate \/ Zoom \/ Pan \/ MoveCamera \/ SetTarget
    \/ WarpToPlanet \/ InstantWarpToPlanet \/ WarpToSun \/ WarpToSystemOverview
    \/ EnforceMinimumDistance \/ AvoidCollision

SpecCamera == CameraInit /\ [][CameraNext]_vars

\* The main loop calls camera.update(dt) in every frame
SpecCameraLive == SpecCamera /\ WF_vars(Update)

-----------------------------------------------------------------------------
(* The rasterizer called once on an arbitrary triangle and screen *)

RasterInit ==
    /\ triangle \in Points \X Points \X Points
    /\ screen \in ScreenSizes
    /\ rcall = [fn |-> "none", skip_factor |-> 1, outcome |-> "none"]
    /\ fragments = << >>
    /\ BodyUnused /\ MeshUnused /\ FrameUnused /\ AssemblyUnused /\ ShaderUnused /\ VertexUnused /\ CameraUnused

Rasterize ==
    /\ rcall.fn = "none"
    /\ fragments' = rasterize_triangle(triangle, screen.w, screen.h)
    /\ rcall' = [fn |-> "rasterize_triangle", skip_factor |-> 1, outcome |-> "ok"]
    /\ UNCHANGED <<triangle, screen, bodyVars, meshVars, frameVars, assemblyVars, shaderVars, vertexVars, cameraVars>>

RasterizeLod ==
    /\ rcall.fn = "none"
    /\ \E k \in SkipFactors :
          \E res \in rasterize_triangle_lod(triangle, k, screen.w, screen.h) :
             /\ fragments' = res.fragments
             /\ rcall' = [fn |-> "rasterize_triangle_lod", skip_factor |-> k,
                          outcome |-> res.outcome]
    /\ UNCHANGED <<triangle, screen, bodyVars, meshVars, frameVars, assemblyVars, shaderVars, vertexVars, cameraVars>>

RasterNext == Rasterize \/ RasterizeLod

SpecRaster == RasterInit /\ [][RasterNext]_vars

\* rasterize_triangle alone, called once on an arbitrary triangle and screen
RasterizeNext == Rasterize

SpecRasterize == RasterInit /\ [][RasterizeNext]_vars

\* The rasterizer called once on a triangle with depths, on an 800 x 600 screen
DepthCoords == {0, Stride, MaxDepthPx * Pixel}
DepthPoints == [x : DepthCoords, y : DepthCoords, z : 0..MaxDepth]

DepthInit ==
    /\ triangle \in DepthPoints \X DepthPoints \X DepthPoints
    /\ screen = [w |-> 800 * Pixel, h |-> 600 * Pixel]
    /\ rcall = [fn |-> "none", skip_factor |-> 1, outcome |-> "none"]
    /\ fragments = << >>
    /\ BodyUnused /\ MeshUnused /\ FrameUnused /\ AssemblyUnused /\ ShaderUnused /\ VertexUnused /\ CameraUnused

SpecDepth == DepthInit /\ [][RasterNext]_vars

\* edge_function called once on three points a, b, c with coordinates in
\* halves of a unit, 0 .. MaxEdgeIdx of them
SideCoords == {k * HalfPixel : k \in 0..MaxEdgeIdx}
SidePoints == [x : SideCoords, y : SideCoords, z : {0}]

EdgeInit ==
    /\ triangle \in SidePoints \X SidePoints \X SidePoints
    /\ screen = [w |-> 0, h |-> 0]
    /\ rcall = [fn |-> "none", skip_factor |-> 1, outcome |-> "none"]
    /\ fragments = << >>
    /\ BodyUnused /\ MeshUnused /\ FrameUnused /\ AssemblyUnused /\ ShaderUnused /\ VertexUnused /\ CameraUnused

EdgeFunction ==
    /\ rcall.fn = "none"
    /\ rcall' = [fn |-> "edge_function", skip_factor |-> 1, outcome |-> "ok",
                 value |-> edge_function(triangle[1].x, triangle[1].y,
                                         triangle[2].x, triangle[2].y,
                                         triangle[3].x, triangle[3].y)]
    /\ UNCHANGED <<triangle, screen, fragments, bodyVars, meshVars, frameVars, assemblyVars, shaderVars, vertexVars, cameraVars>>

EdgeNext == EdgeFunction

SpecEdge == EdgeInit /\ [][EdgeNext]_vars

SpecBody == BodyInit /\ [][BodyNext]_vars

-----------------------------------------------------------------------------
(* Claims about the rasterizer *)

Called == rcall.fn # "none"
Vertices == {triangle[1], triangle[2], triangle[3]}
Frags == {fragments[i] : i \in 1..Len(fragments)}

\* C1: every fragment returned by rasterize_triangle and rasterize_triangle_lod
\* has 0 <= screen_x <= w - 1 and 0 <= screen_y <= h - 1 and lies inside the
\* triangle's bounding box (floor of the minimum, ceil of the maximum).
C1_FragmentsOnScreenInBox ==
    Called =>
        \A f \in Frags :
            /\ 0 <= f.screen_x /\ f.screen_x * Pixel <= screen.w - Pixel
            /\ 0 <= f.screen_y /\ f.screen_y * Pixel <= screen.h - Pixel
            /\ \E v \in Vertices : Floor(v.x) <= f.screen_x
            /\ \E v \in Vertices : f.screen_x <= Ceil(v.x)
            /\ \E v \in Vertices : Floor(v.y) <= f.screen_y
            /\ \E v \in Vertices : f.screen_y <= Ceil(v.y)

\* C1 witness: the LOD rasterizer returned fragments for a triangle that
\* reaches beyond the screen on the left and on the right.
C1_Witness ==
    /\ rcall.fn = "rasterize_triangle_lod" /\ rcall.skip_factor > 1
    /\ fragments # << >>
    /\ \E v \in Vertices : v.x < 0
    /\ \E v \in Vertices : v.x > screen.w

\* C4: at every pixel accepted by rasterize_triangle the three barycentric
\* weights e0/area, e1/area, e2/area are each >= 0 and sum to 1.
C4_WeightsNonNegSumOne ==
    rcall.fn = "rasterize_triangle" =>
        \A f \in Frags :
            /\ f.area # 0
            /\ f.e0 * f.area >= 0 /\ f.e1 * f.area >= 0 /\ f.e2 * f.area >= 0
            /\ f.e0 + f.e1 + f.e2 = f.area

\* C4 witness: a clockwise triangle (negative area) with a fragment strictly
\* inside it.
C4_Witness ==
    /\ rcall.fn = "rasterize_triangle"
    /\ \E f \in Frags : f.area < 0 /\ f.e0 < 0 /\ f.e1 < 0 /\ f.e2 < 0

\* C10: a triangle whose signed area has absolute value below 0.001 yields no
\* fragment from rasterize_triangle and from rasterize_triangle_lod.
C10_DegenerateNoFragments ==
    (Called /\ 1000 * Abs(TotalArea(triangle)) < Pixel * Pixel) => fragments = << >>

\* C10 witness: the LOD rasterizer with a skip factor above 1 returned nothing
\* for a triangle of zero area that passes through the centre of pixel (0, 0)
\* of the screen.
C10_Witness ==
    /\ rcall.fn = "rasterize_triangle_lod" /\ rcall.skip_factor > 1
    /\ TotalArea(triangle) = 0
    /\ screen.w >= Pixel /\ screen.h >= Pixel
    /\ \E a \in Vertices, b \in Vertices :
          /\ a.x < HalfPixel /\ a.y < HalfPixel /\ b.x > HalfPixel /\ b.y > HalfPixel
          /\ edge_function(a.x, a.y, b.x, b.y, HalfPixel, HalfPixel) = 0
    /\ fragments = << >>

\* C10 witness, second case: an area that is not zero and below the threshold.
C10_WitnessTiny ==
    /\ Called /\ TotalArea(triangle) # 0
    /\ 1000 * Abs(TotalArea(triangle)) < Pixel * Pixel
    /\ fragments = << >>

-----------------------------------------------------------------------------
(* Claims about the rendering of one body *)

Rendered == bout.outcome # "none"
ObjPath == Rendered /\ renderer.sphere_model # None
SimplePath == Rendered /\ renderer.sphere_model = None
SeqToSet(q) == {q[i] : i \in 1..Len(q)}

\* The fan triangles <<face_idx, i>> of the faces that the level of detail
\* `skip` selects, whose three indices are all in range.
InRangeTriangles(model, skip) ==
    {t \in (0..Len(model.faces) - 1) \X (1..Len(Quad)) :
        LET face == model.faces[t[1] + 1]
            i == t[2]
        IN  /\ skip = 1 \/ t[1] % skip = 0
            /\ i <= Len(face) - 2
            /\ \A k \in {1, i + 1, i + 2} : face[k] < model.nvertices}

\* C5: with a vertex index out of range in a face, render_obj_model_to_framebuffer
\* skips exactly the fan triangles that use that index and processes, once each,
\* every other triangle of that face and of the other faces its level of detail
\* selects; the call completes.
C5_SkipsOnlyBadTriangles ==
    ObjPath =>
        /\ bout.outcome = "done"
        /\ ~bout.skipped =>
              /\ SeqToSet(bout.processed)
                    = InRangeTriangles(renderer.sphere_model[1], bout.face_skip)
              /\ Len(bout.processed) = Cardinality(SeqToSet(bout.processed))

\* C5 witness: face 0 is the quad (0, out of range, 2, 3): its first fan triangle
\* was skipped, its second and the triangle of face 1 were processed.
C5_Witness ==
    /\ ObjPath /\ ~bout.skipped /\ bout.face_skip = 1
    /\ renderer.sphere_model[1].faces[1][2] >= renderer.sphere_model[1].nvertices
    /\ <<0, 1>> \notin SeqToSet(bout.processed)
    /\ <<0, 2>> \in SeqToSet(bout.processed)
    /\ <<1, 1>> \in SeqToSet(bout.processed)

\* C7: with sphere_model None, rendering a body writes no pixel and does not
\* panic.  (The code draws a filled circle instead, and for a body at the
\* origin its radius is i32::MAX.)
C7_NoMeshWritesNothing ==
    SimplePath => bout.outcome = "done" /\ bout.pixels = {}

\* C7, the panic alone: with sphere_model None, rendering a body completes.
C7_NoMeshCompletes ==
    SimplePath => bout.outcome = "done"

\* C8: the face-skip factor is 8 for an apparent radius r < 3, 4 for
\* 3 <= r < 8, 2 for 8 <= r < 20 and 1 for r >= 20 (2.9 gives 8, 3.0 gives 4,
\* 7.9 gives 4, 8.0 gives 2, 19.9 gives 2, 20.0 gives 1), and a body with
\* r < 0.3 is skipped before any triangle is processed.
C8_FaceSkipSteps ==
    /\ face_skip([num |-> 29, den2 |-> 100]) = 8
    /\ face_skip([num |-> 30, den2 |-> 100]) = 4
    /\ face_skip([num |-> 79, den2 |-> 100]) = 4
    /\ face_skip([num |-> 80, den2 |-> 100]) = 2
    /\ face_skip([num |-> 199, den2 |-> 100]) = 2
    /\ face_skip([num |-> 200, den2 |-> 100]) = 1
    /\ ObjPath =>
          LET n2 == bout.ar.num * bout.ar.num
              d2 == bout.ar.den2
          IN  /\ bout.skipped <=> 100 * n2 < 9 * d2
              /\ bout.skipped => bout.processed = << >>
              /\ ~bout.skipped =>
                    /\ n2 < 9 * d2 => bout.face_skip = 8
                    /\ (n2 >= 9 * d2 /\ n2 < 64 * d2) => bout.face_skip = 4
                    /\ (n2 >= 64 * d2 /\ n2 < 400 * d2) => bout.face_skip = 2
                    /\ n2 >= 400 * d2 => bout.face_skip = 1

\* C8 witness: a body with an apparent radius of exactly 3 was rendered with
\* every fourth face.
C8_Witness ==
    /\ ObjPath /\ ~bout.skipped
    /\ bout.ar.num * bout.ar.num = 9 * bout.ar.den2
    /\ bout.face_skip = 4
    /\ bout.processed # << >>

\* C8 witness, second case: a body with an apparent radius below 0.3.
C8_WitnessSkipped == ObjPath /\ bout.skipped

\* C9: the apparent radius is radius * screen_width / (2 * d) with d the
\* distance from the body to the camera eye.
C9_ApparentRadiusFromEye ==
    ObjPath =>
        LET dx == body.position.x - eye.x
            dy == body.position.y - eye.y
            dz == body.position.z - eye.z
            rw == body.radius * renderer.screen_width
        IN  bout.ar.num * bout.ar.num * 4 * (dx * dx + dy * dy + dz * dz)
               = rw * rw * bout.ar.den2

-----------------------------------------------------------------------------
(* Claims about the mesh operations *)

\* C6: assemble_triangles, ObjModel::calculate_normals (in ObjModel::load) and
\* ObjModel::get_triangles complete for every index list, a face index of 0
\* in the file included: none panics.
C6_MeshOperationsNeverPanic == mop.outcome # "panic"

\* C6, one operation at a time.
C6_LoadNeverPanics == mop.fn = "load" => mop.outcome # "panic"
C6_GetTrianglesNeverPanics == mop.fn = "get_triangles" => mop.outcome # "panic"
C6_AssembleNeverPanics == mop.fn = "assemble_triangles" => mop.outcome # "panic"

-----------------------------------------------------------------------------
(* Claims about the frame *)

OpsNamed(op) == {i \in 1..Len(frame_ops) : frame_ops[i].op = op}
OpRank(op) ==
    CASE op = "clear" -> 0
      [] op = "gradient" -> 1
      [] op = "stars" -> 2
      [] op = "body" -> 3
      [] op = "orbits" -> 4
      [] op = "swap_buffers" -> 5
      [] op = "draw_to_screen" -> 6
BodyNames == {get_all_bodies(solar_system)[i].name :
                 i \in 1..Len(get_all_bodies(solar_system))}
BodyCalls == SelectSeq(frame_ops, LAMBDA o : o.op = "body")
CallDistanceSq(name) ==
    LET b == CHOOSE c \in {get_all_bodies(solar_system)[i] :
                              i \in 1..Len(get_all_bodies(solar_system))} : c.name = name
    IN  get_distance_from_camera_sq(b, camera_eye)

\* C2: within a frame the operations come in the order clear, gradient,
\* stars, bodies, orbit lines, swap_buffers, draw_to_screen; the clear is the
\* first operation, the orbit lines are drawn only when show_orbits is set,
\* and at the hand-off the gradient, the stars, every body and (with
\* show_orbits) the orbit lines have been drawn and nothing is drawn after it.
C2_FrameOrder ==
    pc # "unused" =>
       /\ \A i \in 1..Len(frame_ops) : \A j \in i..Len(frame_ops) :
             OpRank(frame_ops[i].op) <= OpRank(frame_ops[j].op)
       /\ \A op \in {"clear", "gradient", "stars", "orbits", "swap_buffers",
                     "draw_to_screen"} : Cardinality(OpsNamed(op)) <= 1
       /\ frame_ops # << >> => frame_ops[1].op = "clear"
       /\ OpsNamed("orbits") # {} => show_orbits
       /\ OpsNamed("swap_buffers") # {} =>
             /\ OpsNamed("gradient") # {} /\ OpsNamed("stars") # {}
             /\ \A n \in BodyNames : \E i \in OpsNamed("body") : frame_ops[i].body = n
             /\ show_orbits => OpsNamed("orbits") # {}
       /\ OpsNamed("draw_to_screen") # {} => OpsNamed("swap_buffers") # {}

\* C2: a frame with orbit lines has been presented.
C2_Witness ==
    /\ pc = "input" /\ show_orbits
    /\ OpsNamed("orbits") # {} /\ OpsNamed("draw_to_screen") # {}

\* C2: a frame without orbit lines has been presented.
C2_WitnessNoOrbits ==
    /\ pc = "input" /\ ~show_orbits
    /\ OpsNamed("body") # {} /\ OpsNamed("draw_to_screen") # {}

\* C3: of two consecutive body render calls of a frame, the earlier body is
\* at least as far from the camera eye as the later one.
C3_BodiesFarToNear ==
    pc # "unused" =>
       \A i \in 1..(Len(BodyCalls) - 1) :
          CallDistanceSq(BodyCalls[i].body) >= CallDistanceSq(BodyCalls[i + 1].body)

-----------------------------------------------------------------------------
(* Claims about the LOD rasterizer and the depth *)

\* The fragments of rasterize_triangle whose offsets from the clipped
\* bounding-box minimum are multiples of k.
Subsampled(k) ==
    LET box == ClippedBox(triangle, screen.w, screen.h)
    IN  SelectSeq(rasterize_triangle(triangle, screen.w, screen.h),
                  LAMBDA f : /\ (f.screen_x - box.min_x) % k = 0
                             /\ (f.screen_y - box.min_y) % k = 0)

LodExpected ==
    IF rcall.skip_factor <= 1
    THEN rasterize_triangle(triangle, screen.w, screen.h)
    ELSE Subsampled(rcall.skip_factor)

\* C11: rasterize_triangle_lod returns, for every skip factor: with
\* skip_factor <= 1 exactly the fragments of rasterize_triangle, with
\* skip_factor k > 1 exactly those whose x and y offsets from the clipped
\* bounding-box minimum are multiples of k.
C11_LodReturnsSubsample ==
    rcall.fn = "rasterize_triangle_lod" =>
        rcall.outcome = "ok" /\ fragments = LodExpected

\* C11, the part that holds: a call that returns, returns those fragments.
C11_ReturnedIsSubsample ==
    (rcall.fn = "rasterize_triangle_lod" /\ rcall.outcome = "ok") =>
        fragments = LodExpected

\* C11, the part that holds: a skip factor whose additions stay within i32
\* returns.
C11_SmallSkipReturns ==
    (rcall.fn = "rasterize_triangle_lod" /\ rcall.skip_factor <= MaxSkip) =>
        rcall.outcome = "ok"

\* The triangle (0,0,0), (MaxDepthPx,0,0), (0,MaxDepthPx,0), in pixels.
ExampleTriangle ==
    <<[x |-> 0, y |-> 0, z |-> 0], [x |-> MaxDepthPx * Pixel, y |-> 0, z |-> 0],
      [x |-> 0, y |-> MaxDepthPx * Pixel, z |-> 0]>>

\* C12: the depth of every fragment is w0 * z0 + w1 * z1 + w2 * z2; when the
\* three vertices have the same depth d every fragment has depth d; the
\* triangle (0,0,0), (4,0,0), (0,4,0) on the 800 x 600 screen has a fragment
\* at pixel (1,1), of depth 0.
C12_DepthIsBarycentric ==
    (Called /\ rcall.outcome = "ok") =>
        /\ \A f \in Frags :
              /\ f.depth_num = f.e0 * triangle[1].z + f.e1 * triangle[2].z
                                 + f.e2 * triangle[3].z
              /\ \A d \in 0..MaxDepth :
                    (\A i \in 1..3 : triangle[i].z = d) => f.depth_num = d * f.area
        /\ (triangle = ExampleTriangle /\ rcall.skip_factor <= 1) =>
              \E f \in Frags : f.screen_x = 1 /\ f.screen_y = 1 /\ f.depth_num = 0

\* C12 witness: three vertices of the same depth, not 0, and a fragment
\* strictly inside the triangle.
C12_Witness ==
    /\ rcall.fn = "rasterize_triangle"
    /\ \A i \in 1..3 : triangle[i].z = MaxDepth
    /\ \E f \in Frags : f.e0 # 0 /\ f.e1 # 0 /\ f.e2 # 0 /\ f.depth_num = MaxDepth * f.area

\* C12 witness: the example triangle has its fragment at pixel (1,1).
C12_WitnessExample ==
    /\ rcall.fn = "rasterize_triangle" /\ triangle = ExampleTriangle
    /\ \E f \in Frags : f.screen_x = 1 /\ f.screen_y = 1 /\ f.depth_num = 0

\* C12 witness: three different depths.
C12_WitnessMixed ==
    /\ rcall.fn = "rasterize_triangle"
    /\ triangle[1].z = 0 /\ triangle[2].z = 1 /\ triangle[3].z = MaxDepth
    /\ \E f \in Frags : f.e0 # 0 /\ f.e1 # 0 /\ f.e2 # 0

-----------------------------------------------------------------------------
(* Claims about primitive_assembly.rs *)

\* A vertex with x in [-10, w + 10] and y in [-10, h + 10], both bounds
\* inclusive; and with the upper bounds exclusive.
InClosedRange(v) ==
    /\ 0 - ScreenMargin <= v.x /\ v.x <= AssemblyWidth + ScreenMargin
    /\ 0 - ScreenMargin <= v.y /\ v.y <= AssemblyHeight + ScreenMargin
InHalfOpenRange(v) ==
    /\ 0 - ScreenMargin <= v.x /\ v.x < AssemblyWidth + ScreenMargin
    /\ 0 - ScreenMargin <= v.y /\ v.y < AssemblyHeight + ScreenMargin

\* C13, as stated: is_on_screen(w, h) is true exactly when at least one vertex
\* has x in [-10, w + 10] and y in [-10, h + 10], both bounds inclusive.
C13_OnScreenClosed ==
    acall.fn = "is_on_screen" =>
        (acall.result <=> \E i \in 1..3 : InClosedRange(acall.tri[i]))

\* C13, amended: is_on_screen(w, h) is true exactly when at least one vertex
\* has -10 <= x < w + 10 and -10 <= y < h + 10: the lower bounds are
\* inclusive, the upper bounds exclusive.
C13_OnScreenHalfOpen ==
    acall.fn = "is_on_screen" =>
        (acall.result <=> \E i \in 1..3 : InHalfOpenRange(acall.tri[i]))

\* C13 witness: a triangle with a vertex at exactly x = w + 10 and no vertex
\* within the half-open range is not on screen.
C13_Witness ==
    /\ acall.fn = "is_on_screen" /\ ~acall.result
    /\ \E i \in 1..3 : /\ acall.tri[i].x = AssemblyWidth + ScreenMargin
                       /\ acall.tri[i].y = 0 - ScreenMargin

\* C13 witness: a vertex at exactly x = -10, y = -10 puts the triangle on screen.
C13_WitnessLower ==
    /\ acall.fn = "is_on_screen" /\ acall.result
    /\ \A i \in 1..3 : InHalfOpenRange(acall.tri[i]) =>
          (acall.tri[i].x = 0 - ScreenMargin /\ acall.tri[i].y = 0 - ScreenMargin)

\* The 2D cross product of the first two edges
CrossZ(tri) ==
    (tri[2].x - tri[1].x) * (tri[3].y - tri[1].y)
      - (tri[2].y - tri[1].y) * (tri[3].x - tri[1].x)

\* C14: is_front_facing is true for (0,0), (1,0), (0,1), and for a triangle
\* whose cross product of the first two edges is not zero, swapping the last
\* two vertices flips the result.
C14_SwapFlipsFacing ==
    acall.fn = "is_front_facing" =>
        /\ acall.tri = FrontAt(0) => acall.result
        /\ CrossZ(acall.tri) # 0 => (acall.swapped <=> ~acall.result)

\* C14 witness: the triangle (0,0), (1,0), (0,1) is front-facing and its swap
\* is not.
C14_Witness ==
    /\ acall.fn = "is_front_facing" /\ acall.tri = FrontAt(0)
    /\ acall.result /\ ~acall.swapped

\* C14 witness: a triangle of zero area is back-facing both ways.
C14_WitnessFlat ==
    /\ acall.fn = "is_front_facing" /\ CrossZ(acall.tri) = 0
    /\ acall.tri[1] # acall.tri[2] /\ ~acall.result /\ ~acall.swapped

\* The triangles of the list that pass is_on_screen and, when culling back
\* faces, is_front_facing: the places of the list that are kept.
Kept(triangles, enable) ==
    {i \in 1..Len(triangles) :
        /\ is_on_screen(triangles[i], AssemblyWidth, AssemblyHeight)
        /\ enable => is_front_facing(triangles[i])}

\* The strictly increasing maps of 1..n into 1..m
Embeddings(n, m) == {f \in [1..n -> 1..m] : \A i \in 1..n : \A j \in 1..n : i < j => f[i] < f[j]}

\* C15: cull_triangles returns exactly the input triangles, in their original
\* relative order, that pass is_on_screen and, when enable_backface_culling is
\* set, is_front_facing; with culling disabled no on-screen back-facing
\* triangle is removed; an input with nothing left yields the empty list.
C15_CullKeepsExactly ==
    acall.fn = "cull_triangles" =>
        LET kept == Kept(acall.triangles, acall.enable_backface_culling)
        IN  /\ Len(acall.result) = Cardinality(kept)
            /\ \E f \in Embeddings(Len(acall.result), Len(acall.triangles)) :
                  /\ {f[i] : i \in 1..Len(acall.result)} = kept
                  /\ \A i \in 1..Len(acall.result) : acall.result[i] = acall.triangles[f[i]]
            /\ ~acall.enable_backface_culling =>
                  \A i \in 1..Len(acall.triangles) :
                     (/\ is_on_screen(acall.triangles[i], AssemblyWidth, AssemblyHeight)
                      /\ ~is_front_facing(acall.triangles[i]))
                        => \E j \in 1..Len(acall.result) : acall.result[j] = acall.triangles[i]
            /\ kept = {} => acall.result = << >>

\* C15 witness: with culling enabled, of a back-facing on-screen triangle
\* followed by a front-facing one only the second is returned.
C15_Witness ==
    /\ acall.fn = "cull_triangles" /\ acall.enable_backface_culling
    /\ acall.triangles = <<BackAt(0), FrontAt(0)>>
    /\ acall.result = <<FrontAt(0)>>

\* C15 witness: with culling disabled the back-facing on-screen triangle stays
\* and the off-screen one goes.
C15_WitnessDisabled ==
    /\ acall.fn = "cull_triangles" /\ ~acall.enable_backface_culling
    /\ acall.triangles = <<BackAt(0), FrontAt(AssemblyWidth + ScreenMargin)>>
    /\ acall.result = <<BackAt(0)>>

\* C15 witness: nothing is left of a list that is not empty.
C15_WitnessEmpty ==
    /\ acall.fn = "cull_triangles" /\ acall.triangles # << >> /\ acall.result = << >>

\* How often the triangle t occurs in the list
Occurrences(triangles, t) == Cardinality({i \in 1..Len(triangles) : triangles[i] = t})

\* C16: sort_triangles_by_depth returns a permutation of its input in which
\* centroid_z, the mean of the three depths, is non-increasing from first to
\* last.
C16_SortedFarthestFirst ==
    acall.fn = "sort_triangles_by_depth" =>
        /\ Len(acall.result) = Len(acall.triangles)
        /\ \A t \in DepthTriangles :
              Occurrences(acall.result, t) = Occurrences(acall.triangles, t)
        /\ \A i \in 1..Len(acall.result) : \A j \in i..Len(acall.result) :
              3 * (acall.result[i][1].z + acall.result[i][2].z + acall.result[i][3].z)
                >= 3 * (acall.result[j][1].z + acall.result[j][2].z + acall.result[j][3].z)

\* C16 witness: a list in strictly increasing depth comes back reversed.
C16_Witness ==
    /\ acall.fn = "sort_triangles_by_depth" /\ Len(acall.triangles) = MaxSortLen
    /\ \A i \in 1..(MaxSortLen - 1) :
          RatLess(centroid_z(acall.triangles[i]), centroid_z(acall.triangles[i + 1]))
    /\ \A i \in 1..MaxSortLen : acall.result[i] = acall.triangles[MaxSortLen + 1 - i]

\* C16 witness: two triangles of the same centroid keep their order.
C16_WitnessTie ==
    /\ acall.fn = "sort_triangles_by_depth" /\ Len(acall.triangles) = 2
    /\ acall.triangles[1] # acall.triangles[2]
    /\ centroid_z(acall.triangles[1]) = centroid_z(acall.triangles[2])
    /\ acall.result = acall.triangles

\* C17: assemble_fan_triangles on N vertices returns no triangle when N < 3
\* and otherwise exactly N - 2 triangles, the i-th being (vertex 0, vertex i,
\* vertex i + 1); a face of 4 vertices gives 2 triangles.  (The vertex at
\* place k of a fan has x = k.)
C17_FanTriangles ==
    acall.fn = "assemble_fan_triangles" =>
        LET n == Len(acall.vertices)
        IN  /\ n < 3 => acall.result = << >>
            /\ n >= 3 =>
                  /\ Len(acall.result) = n - 2
                  /\ \A i \in 1..(n - 2) :
                        /\ Len(acall.result[i]) = 3
                        /\ acall.result[i][1].x = 0
                        /\ acall.result[i][2].x = i
                        /\ acall.result[i][3].x = i + 1
            /\ n = 4 => Len(acall.result) = 2

\* C17 witness: the fan of 4 vertices gives (0, 1, 2) and (0, 2, 3).
C17_Witness ==
    /\ acall.fn = "assemble_fan_triangles" /\ Len(acall.vertices) = 4
    /\ Len(acall.result) = 2
    /\ acall.result[2][1].x = 0 /\ acall.result[2][2].x = 2 /\ acall.result[2][3].x = 3

\* C17 witness: two vertices give no triangle.
C17_WitnessShort ==
    /\ acall.fn = "assemble_fan_triangles" /\ Len(acall.vertices) = 2
    /\ acall.result = << >>

-----------------------------------------------------------------------------
(* The fragment shaders *)

Lit == scall.fn = "fragment_shader" /\ scall.config.enable_lighting

\* channel * light_factor, truncated to a whole number, is out
IsScaled(channel, light_factor, out) ==
    /\ out * light_factor.d <= channel * light_factor.n
    /\ channel * light_factor.n < (out + 1) * light_factor.d

\* max(0, dot(normal, light)) of the two vectors normalized, as a fraction
Lambert(normal, light) ==
    LET dot == dot_product(normalize_vector3(normal), normalize_vector3(light))
    IN  IF dot.num > 0 THEN DotAsFrac(dot) ELSE FracZero

\* C18: fragment_shader with enable_lighting = false returns the base color
\* unchanged in all four channels, whatever the color, the normal and the
\* rest of the configuration.
C18_UnlitKeepsColor ==
    (scall.fn = "fragment_shader" /\ ~scall.config.enable_lighting) =>
        /\ scall.result.r = scall.base_color.r
        /\ scall.result.g = scall.base_color.g
        /\ scall.result.b = scall.base_color.b
        /\ scall.result.a = scall.base_color.a

\* C18 witness: lighting is disabled in a configuration that would turn the
\* color black if it were enabled, and blue comes back as it went in.
C18_Witness ==
    /\ scall.fn = "fragment_shader" /\ ~scall.config.enable_lighting
    /\ scall.config.ambient_intensity = 0 /\ scall.config.diffuse_intensity = 0
    /\ scall.base_color = Color(0, 121, 241, U8Max)
    /\ scall.result = scall.base_color

\* C19: with lighting enabled, total_light is
\* min(1, ambient_intensity + diffuse_intensity * max(0, dot(normal,
\* light_direction))) and R, G and B are multiplied by it: total_light is at
\* most 1 and no output channel exceeds the input channel, no output channel
\* decreases when diffuse_intensity is raised with the rest fixed, and alpha
\* is passed through.
C19_LightingScalesColor ==
    Lit =>
        LET config == scall.config
            claimed == FracAdd(Intensity(config.ambient_intensity),
                               FracMul(Intensity(config.diffuse_intensity),
                                       Lambert(scall.normal, config.light_direction)))
        IN  /\ scall.total_light = (IF FracLess(FracOne, claimed) THEN FracOne ELSE claimed)
            /\ ~FracLess(FracOne, scall.total_light)
            /\ IsScaled(scall.base_color.r, scall.total_light, scall.result.r)
            /\ IsScaled(scall.base_color.g, scall.total_light, scall.result.g)
            /\ IsScaled(scall.base_color.b, scall.total_light, scall.result.b)
            /\ scall.result.r <= scall.base_color.r
            /\ scall.result.g <= scall.base_color.g
            /\ scall.result.b <= scall.base_color.b
            /\ scall.result.a = scall.base_color.a
            /\ \A more \in Intensities :
                  more >= config.diffuse_intensity =>
                      LET brighter == fragment_shader(scall.base_color, scall.normal,
                                          [config EXCEPT !.diffuse_intensity = more])
                      IN  /\ brighter.r >= scall.result.r
                          /\ brighter.g >= scall.result.g
                          /\ brighter.b >= scall.result.b

\* C19 witness: the sum of ambient and diffuse light passes 1 and the color
\* comes back unchanged, its alpha of 128 included.
C19_Witness ==
    /\ Lit
    /\ scall.config.ambient_intensity + scall.config.diffuse_intensity > IntensityDen
    /\ scall.normal = scall.config.light_direction /\ scall.normal = Vector3(3, 4, 0)
    /\ scall.base_color.a = 128
    /\ scall.total_light = FracOne
    /\ scall.result = scall.base_color

\* C19 witness: a surface lit at an angle (dot product 4/5) with the default
\* intensities 0.3 and 0.7 has total_light 0.86, and Color::BLUE's 241
\* becomes 207.
C19_WitnessDimmed ==
    /\ Lit
    /\ scall.config.ambient_intensity = 3 /\ scall.config.diffuse_intensity = 7
    /\ IntensityDen = 10 =>
          /\ scall.normal = Vector3(0, 1, 0)
          /\ scall.config.light_direction = Vector3(3, 4, 0)
          /\ scall.total_light = Frac(43, 50)
          /\ scall.base_color.b = 241 /\ scall.result.b = 207

\* C19 witness: a surface facing away from the light gets the ambient light
\* only.
C19_WitnessAway ==
    /\ Lit
    /\ scall.normal = Vector3(0, 1, 0)
    /\ scall.config.light_direction = Vector3(0, 0 - 1, 0)
    /\ scall.config.diffuse_intensity > 0
    /\ scall.config.ambient_intensity > 0
    /\ scall.total_light = Intensity(scall.config.ambient_intensity)

Phong == scall.fn = "fragment_shader_phong"

\* n.l of the call, not yet clamped
PhongNDotL ==
    dot_product(normalize_vector3(scall.normal),
                normalize_vector3(scall.light_direction))

\* max(0, n.h)^shininess of the call, h being the normalized half-vector
PhongSpecularFactor ==
    LET h == normalize_vector3(HalfVector(normalize_vector3(scall.light_direction),
                                          normalize_vector3(scall.view_direction)))
        n_dot_h == dot_product(normalize_vector3(scall.normal), h)
    IN  IF n_dot_h.num > 0
        THEN FracPow(Frac(n_dot_h.num * n_dot_h.num, n_dot_h.den2), scall.shininess)
        ELSE IF scall.shininess = 0 THEN FracOne ELSE FracZero

\* ambient + diffuse * max(0, n.l) of the call
PhongAmbientDiffuse ==
    FracAdd(Intensity(scall.ambient),
            FracMul(Intensity(scall.diffuse),
                    Lambert(scall.normal, scall.light_direction)))

\* min(1, ambient + diffuse * max(0, n.l) + specular * max(0, n.h)^shininess)
PhongClaimed ==
    FracMin(FracAdd(PhongAmbientDiffuse,
                    FracMul(Intensity(scall.specular), PhongSpecularFactor)),
            FracOne)

\* C20 as stated: fragment_shader_phong's total light is
\* min(1, ambient + diffuse * max(0, n.l) + specular * max(0, n.h)^shininess)
\* for every input, n.l <= 0 included.
C20_PhongTotalEveryInput ==
    Phong => scall.total_light = PhongClaimed

\* C20 amended: fragment_shader_phong's total light is
\* min(1, ambient + diffuse * max(0, n.l) + specular * max(0, n.h)^shininess)
\* when n.l > 0; when n.l <= 0 the specular term is left out and the total
\* light is min(1, ambient).  The color is the base color scaled by it.
C20_PhongTotalWhenLit ==
    Phong =>
        /\ PhongNDotL.num > 0 => scall.total_light = PhongClaimed
        /\ PhongNDotL.num <= 0 =>
              scall.total_light = FracMin(Intensity(scall.ambient), FracOne)
        /\ IsScaled(scall.base_color.r, scall.total_light, scall.result.r)
        /\ IsScaled(scall.base_color.g, scall.total_light, scall.result.g)
        /\ IsScaled(scall.base_color.b, scall.total_light, scall.result.b)
        /\ scall.result.a = scall.base_color.a

\* C20 witness: the light grazes the surface (n.l = 0) while the half-vector
\* leans towards the normal (n.h > 0): the specular term is left out.
C20_Witness ==
    /\ Phong
    /\ PhongNDotL.num = 0
    /\ scall.specular > 0 /\ scall.shininess > 0
    /\ FracLess(FracZero, PhongSpecularFactor)
    /\ FracLess(Intensity(scall.ambient), FracOne)
    /\ scall.total_light = Intensity(scall.ambient)
    /\ scall.total_light # PhongClaimed

\* C20 witness: a lit surface whose highlight adds to the total without
\* reaching 1.
C20_WitnessHighlight ==
    /\ Phong
    /\ PhongNDotL.num > 0
    /\ scall.shininess > 0
    /\ FracLess(PhongAmbientDiffuse, scall.total_light)
    /\ FracLess(scall.total_light, FracOne)

\* C20 witness: light and view directions are opposite, so the half-vector
\* is the zero vector and normalize_vector3 makes (0, 1, 0) of it.
C20_WitnessOpposite ==
    /\ Phong
    /\ scall.light_direction = Vector3(0, 1, 0)
    /\ scall.view_direction = Vector3(0, 0 - 1, 0)
    /\ scall.normal = Vector3(3, 4, 0)
    /\ scall.specular > 0 /\ scall.shininess > 0 /\ scall.ambient = 0
    /\ FracLess(PhongAmbientDiffuse, scall.total_light)

-----------------------------------------------------------------------------
(* Matrices and the vertex shader *)

ModelCall == vcall.fn = "model_matrix"
ShaderCall == vcall.fn = "vertex_shader"

\* C21: the model matrix of a body is translation(position) times
\* scale(radius, radius, radius); transform_point with it maps a model-space
\* point p to position + radius * p, w staying 1; and the matrix depends on
\* no field of the body but position and radius.
C21_ModelMatrixScalesThenTranslates ==
    ModelCall =>
        LET b == vcall.body
            m == vcall.model_matrix
            p == vcall.point
        IN  /\ \A i \in 1..3 : \A j \in 1..3 :
                  m[i][j] = (IF i = j THEN b.radius ELSE FracZero)
            /\ m[1][4] = b.position.x /\ m[2][4] = b.position.y
            /\ m[3][4] = b.position.z
            /\ m[4] = <<FracZero, FracZero, FracZero, FracOne>>
            /\ vcall.w = FracOne
            /\ vcall.result.x = FracAdd(b.position.x, FracMul(b.radius, p.x))
            /\ vcall.result.y = FracAdd(b.position.y, FracMul(b.radius, p.y))
            /\ vcall.result.z = FracAdd(b.position.z, FracMul(b.radius, p.z))
            /\ \A name \in {"Sun", "Earth"}, has_rings \in BOOLEAN :
                  model_matrix([b EXCEPT !.name = name, !.has_rings = has_rings]) = m

\* C21 witness: a body of radius 3/2 away from the origin, and a point that
\* both the scale and the translation move.
C21_Witness ==
    /\ ModelCall
    /\ vcall.body.radius = Frac(3, 2)
    /\ vcall.body.position = Point(1, 0, 1)
    /\ vcall.point = Point(1, 1, 2)
    /\ vcall.result = FracVec(Frac(5, 2), Frac(3, 2), FI(4))

\* The upper-left 3x3 block of the call's model matrix applied to its normal
LinearNormal ==
    LET m == vcall.model_matrix
        n == vcall.vertex_normal
        Linear(i) == FracAdd(FracAdd(FracMul(m[i][1], n.x), FracMul(m[i][2], n.y)),
                             FracMul(m[i][3], n.z))
    IN  FracVec(Linear(1), Linear(2), Linear(3))

DefaultNormal == [x |-> FracZero, y |-> FracOne, z |-> FracZero, len2 |-> FracOne]

\* C22: the world normal of vertex_shader depends only on the upper-left 3x3
\* block of the model matrix: it is transform_normal of the normal under the
\* model matrix with any other translation column; and a normal whose
\* transformed length is 0 gives the default normal (0, 1, 0).
C22_NormalIgnoresTranslation ==
    ShaderCall =>
        /\ \A t \in Translations :
              transform_normal(vcall.vertex_normal,
                               WithTranslation(vcall.model_matrix, t))
                  = vcall.result.world_normal
        /\ LinearNormal = Point(0, 0, 0) => vcall.result.world_normal = DefaultNormal
        /\ LinearNormal # Point(0, 0, 0) =>
              /\ vcall.result.world_normal.x = LinearNormal.x
              /\ vcall.result.world_normal.y = LinearNormal.y
              /\ vcall.result.world_normal.z = LinearNormal.z

\* C22 witness: a model matrix that turns and translates; the normal (1,0,0)
\* comes out as (0,0,-1), the translation left out.
C22_Witness ==
    /\ ShaderCall
    /\ vcall.model_matrix[1][4] # FracZero /\ vcall.model_matrix[3][4] # FracZero
    /\ vcall.model_matrix[1][1] = FracZero
    /\ vcall.vertex_normal = Point(1, 0, 0)
    /\ vcall.result.world_normal =
           [x |-> FracZero, y |-> FracZero, z |-> FI(0 - 1), len2 |-> FracOne]

\* C22 witness: the scale 0 takes the normal (3,4,0) to length 0 and the
\* default normal comes back.
C22_WitnessDefault ==
    /\ ShaderCall
    /\ vcall.vertex_normal = Point(3, 4, 0)
    /\ vcall.model_matrix[2][2] = FracZero
    /\ vcall.model_matrix[1][4] # FracZero
    /\ vcall.result.world_normal = DefaultNormal

\* C23: the perspective divisor of vertex_shader is max(clip.z, 0.001): for
\* every vertex and matrices, clip.z = 0 and clip.z < 0 included, it is at
\* least 0.001 and never zero.
C23_DivisorAtLeastEpsilon ==
    ShaderCall =>
        /\ ~FracLess(vcall.w, Epsilon)
        /\ vcall.w # FracZero
        /\ vcall.w.d # 0
        /\ vcall.w = (IF FracLess(Epsilon, vcall.clip_position.z)
                      THEN vcall.clip_position.z ELSE Epsilon)
        /\ vcall.result.screen_position.x.d # 0
        /\ vcall.result.screen_position.y.d # 0

\* C23 witness: clip.z = 0, and the division is by 0.001.
C23_Witness ==
    /\ ShaderCall
    /\ vcall.clip_position.z = FracZero
    /\ vcall.clip_position.x # FracZero
    /\ vcall.w = Epsilon

\* C23 witness: clip.z < 0.
C23_WitnessNegative ==
    /\ ShaderCall
    /\ FracLess(vcall.clip_position.z, FracZero)
    /\ vcall.w = Epsilon

AllIdentity ==
    /\ ShaderCall
    /\ vcall.model_matrix = Matrix_identity /\ vcall.view_matrix = Matrix_identity
    /\ vcall.projection_matrix = Matrix_identity
    /\ vcall.viewport_matrix = Matrix_identity

\* C24: with the model, view, projection and viewport matrices all the
\* identity, screen_position x and y of the output equal x and y of the
\* input vertex position, for every input vertex.
C24_IdentityKeepsPosition ==
    AllIdentity =>
        /\ vcall.result.screen_position.x = vcall.vertex_position.x
        /\ vcall.result.screen_position.y = vcall.vertex_position.y

\* C24: the vertex (1, 1, 1) of the code's test keeps its position.
C24_TestVertexKept ==
    (AllIdentity /\ vcall.vertex_position = Point(1, 1, 1)) =>
        /\ vcall.result.screen_position.x = FracOne
        /\ vcall.result.screen_position.y = FracOne

\* C24: the vertex (1, 1, 2) comes out at (1/2, 1/2).
C24_WitnessHalved ==
    /\ AllIdentity
    /\ vcall.vertex_position = Point(1, 1, 2)
    /\ vcall.result.screen_position.x = Frac(1, 2)
    /\ vcall.result.screen_position.y = Frac(1, 2)

-----------------------------------------------------------------------------
(* The warp of the camera (C27 to C29) *)

\* The last call was the Camera::update that completed a warp
WarpCompleted == cam_op.name = "update" /\ cam_op.warping /\ ~camera.is_warping

\* The eye on the orbit sphere: target + distance * (cos yaw cos pitch,
\* sin pitch, sin yaw cos pitch)
OrbitEye(cam) ==
    VAdd(cam.target,
         VScale(FracVec(NumMul(cam.yaw.cos, cam.pitch.cos), cam.pitch.sin,
                        NumMul(cam.yaw.sin, cam.pitch.cos)), cam.distance))

\* C27: at the end of the Camera::update call that completes a warp (the warp
\* progress reaches 1 and is_warping becomes false) the eye of the camera
\* equals warp_target_pos.
C27_WarpEndsAtTarget == WarpCompleted => camera.eye = camera.warp_target_pos

\* C27: a warp to the sun from the camera at (0, 60, 80) completes with the
\* eye at (0, 48, 64), on the orbit sphere, and warp_target_pos (80, 32, 48).
C27_WitnessOffTarget ==
    /\ WarpCompleted
    /\ camera.warp_target_pos = Point(80, 32, 48)
    /\ camera.eye = Point(0, 48, 64)
    /\ camera.eye = OrbitEye(camera)

\* The operations that test is_warping before they change the camera
GuardedOps ==
    {"rotate", "zoom", "pan", "move_camera", "set_target", "warp_to_planet",
     "warp_to_sun", "warp_to_system_overview", "enforce_minimum_distance"}

\* C28: while is_warping is true, rotate, zoom, pan, move_camera, set_target,
\* warp_to_planet, warp_to_sun, warp_to_system_overview and
\* enforce_minimum_distance leave every field of the camera unchanged.
C28_WarpFreezesCamera ==
    [][(camera.is_warping /\ cam_op'.name \in GuardedOps) => camera' = camera]_vars

\* C28: set_target was called in the middle of a warp, which is still in
\* progress.
C28_Witness ==
    /\ cam_op.name = "set_target" /\ cam_op.warping /\ camera.is_warping
    /\ NumLess(FracZero, camera.warp_progress)
    /\ NumLess(camera.warp_progress, FracOne)
    /\ camera.target # CameraPlanet.position

\* C29: warp_progress stays within 0..1, and a warp in progress is ended by
\* the repeated calls of Camera::update with dt > 0.
C29_WarpEnds ==
    /\ [](/\ ~NumLess(camera.warp_progress, FracZero)
          /\ ~NumLess(FracOne, camera.warp_progress))
    /\ (camera.is_warping ~> ~camera.is_warping)

\* C29: a warp that began with progress 0 was completed by update, the
\* progress being 1.
C29_Witness ==
    /\ WarpCompleted
    /\ camera.warp_progress = FracOne

\* C29: a warp in progress after a first update, short of 1.
C29_WitnessMidway ==
    /\ cam_op.name = "update" /\ camera.is_warping
    /\ camera.warp_progress = Num(1, 4)

-----------------------------------------------------------------------------
(* The sign of edge_function (C25) and the winding of the triangle (C30) *)

EdgeCall == rcall.fn = "edge_function"

Sign(n) == IF n > 0 THEN 1 ELSE IF n < 0 THEN 0 - 1 ELSE 0

\* Positive when c lies to the left of the directed line from a to b, as
\* (1/2, 1/2) lies to the left of the line from (0, 0) to (1, 0); negative
\* to the right, zero on the line
LeftOf(a, b, c) == (b.x - a.x) * (c.y - a.y) - (b.y - a.y) * (c.x - a.x)

\* C25: edge_function(a, b, c) is positive when c lies to the left of the
\* directed line from a to b, negative when it lies to the right and zero
\* when it lies on the line; edge_function((0,0), (1,0), (0.5,0.5)) > 0.
C25_EdgeFunctionSide ==
    EdgeCall => Sign(rcall.value) = Sign(LeftOf(triangle[1], triangle[2], triangle[3]))

\* C25: the call of the code's test, edge_function(0, 0, 1, 0, 0.5, 0.5),
\* returned -0.5.
C25_WitnessTest ==
    /\ EdgeCall
    /\ triangle[1] = [x |-> 0, y |-> 0, z |-> 0]
    /\ triangle[2] = [x |-> Pixel, y |-> 0, z |-> 0]
    /\ triangle[3] = [x |-> HalfPixel, y |-> HalfPixel, z |-> 0]
    /\ rcall.value = 0 - HalfPixel * Pixel

\* The pixel coordinates of a sequence of fragments
PixelsOf(frags) == {<<frags[i].screen_x, frags[i].screen_y>> : i \in 1..Len(frags)}

\* The triangle with two of its vertices swapped, in the three ways
Swapped(tri) ==
    {<<tri[2], tri[1], tri[3]>>, <<tri[1], tri[3], tri[2]>>, <<tri[3], tri[2], tri[1]>>}

C30_WitnessPositive ==
    /\ rcall.fn = "rasterize_triangle"
    /\ TotalArea(triangle) > 0 /\ ~IsDegenerate(TotalArea(triangle))
    /\ Len(fragments) > 1

-----------------------------------------------------------------------------
(* The bodies rendered in one frame (C26) *)

\* The render calls of the frame made for the body called name
CallsOf(name) == {i \in OpsNamed("body") : frame_ops[i].body = name}

\* render_solar_system_to_framebuffer has returned
RenderReturned == pc \in {"swap", "draw"}

\* C26: in one call of render_solar_system_to_framebuffer every body of the
\* solar system (the star, each planet and each moon) is rendered exactly
\* once.
C26_EachBodyOnce ==
    RenderReturned => \A name \in BodyNames : Cardinality(CallsOf(name)) = 1

\* C26: the call returned with the star and every planet rendered once and
\* every moon rendered twice.
C26_WitnessMoonsTwice ==
    /\ RenderReturned
    /\ Cardinality(CallsOf(solar_system.star.name)) = 1
    /\ \A p \in 1..Len(solar_system.planets) :
          /\ Cardinality(CallsOf(solar_system.planets[p].name)) = 1
          /\ \A m \in 1..Len(solar_system.planets[p].moons) :
                Cardinality(CallsOf(solar_system.planets[p].moons[m].name)) = 2

=============================================================================
